---- MODULE Spec2Model ----
(***************************************************************************)
(* A model of the repository-structure tool:                               *)
(*   - the ProposalExecutor (src/src/executor.py) acting on a filesystem   *)
(*     and its audit log                      (Spec, SpecExec);            *)
(*   - the approval loop of the apply command (src/src/cli.py)             *)
(*                                            (SpecApply);                 *)
(*   - the StructureReasoner with the RepoTypeDetector and the             *)
(*     FileClassifier (src/src/reasoner.py, repo_type.py, classifier.py)   *)
(*                                            (SpecReasoner).              *)
(*                                                                         *)
(* A path is the sequence of its segments, relative to the repository      *)
(* root (the empty sequence).  The filesystem maps every existing path to  *)
(* "dir" or to the identity of the file stored there.  The audit log       *)
(* (.repo-tool-history.json) is kept apart from the modelled paths: no     *)
(* proposal names it.  Timestamps, risk levels and reason strings of       *)
(* results and log entries are left out; messages are kept by their fixed  *)
(* prefix.  File names and extensions are strings, and the string tests    *)
(* of the classifier are computed on their characters.  The reason of a    *)
(* Move proposal is kept by its category, the reason of a duplicate Flag   *)
(* by its prefix.                                                          *)
(***************************************************************************)
EXTENDS Integers, Sequences, FiniteSets, TLC

VARIABLES fs, logFile, dry_run, results, last, steps, apply, files, disk,
          reasoner, classifier, scorer, analyzer

vars ==
    <<fs, logFile, dry_run, results, last, steps, apply, files, disk, reasoner,
      classifier, scorer, analyzer>>

\* the state of the analysis: the file records, the paths on disk, the
\* StructureReasoner, a FileClassifier used on its own, a ConfidenceScore
\* and an ImportAnalyzer
reasonerVars == <<files, disk, reasoner, classifier, scorer, analyzer>>

\* the state outside the executor
nonExecVars == <<apply, files, disk, reasoner, classifier, scorer, analyzer>>

(* ------------------------------ bounds -------------------------------- *)

\* executor calls in one run of the life cycle
MaxSteps == 6

\* executor calls in one run of execute_proposal alone
MaxExecSteps == 3

\* Move proposals handed to one run of the apply command
MaxProposals == 2

\* file records in one analysis
MaxFiles == 3

\* file records in one analysis of a repository of same-named files
MaxDupFiles == 4

(* ------------------------------- text --------------------------------- *)

\* str.lower on one character
LowerChar(c) ==
    CASE c = "A" -> "a" [] c = "B" -> "b" [] c = "C" -> "c" [] c = "D" -> "d"
      [] c = "E" -> "e" [] c = "F" -> "f" [] c = "G" -> "g" [] c = "H" -> "h"
      [] c = "I" -> "i" [] c = "J" -> "j" [] c = "K" -> "k" [] c = "L" -> "l"
      [] c = "M" -> "m" [] c = "N" -> "n" [] c = "O" -> "o" [] c = "P" -> "p"
      [] c = "Q" -> "q" [] c = "R" -> "r" [] c = "S" -> "s" [] c = "T" -> "t"
      [] c = "U" -> "u" [] c = "V" -> "v" [] c = "W" -> "w" [] c = "X" -> "x"
      [] c = "Y" -> "y" [] c = "Z" -> "z" [] OTHER -> c

\* str.upper on one character
UpperChar(c) ==
    CASE c = "a" -> "A" [] c = "b" -> "B" [] c = "c" -> "C" [] c = "d" -> "D"
      [] c = "e" -> "E" [] c = "f" -> "F" [] c = "g" -> "G" [] c = "h" -> "H"
      [] c = "i" -> "I" [] c = "j" -> "J" [] c = "k" -> "K" [] c = "l" -> "L"
      [] c = "m" -> "M" [] c = "n" -> "N" [] c = "o" -> "O" [] c = "p" -> "P"
      [] c = "q" -> "Q" [] c = "r" -> "R" [] c = "s" -> "S" [] c = "t" -> "T"
      [] c = "u" -> "U" [] c = "v" -> "V" [] c = "w" -> "W" [] c = "x" -> "X"
      [] c = "y" -> "Y" [] c = "z" -> "Z" [] OTHER -> c

RECURSIVE Lower(_)
\* str.lower
Lower(s) ==
    IF Len(s) = 0 THEN ""
    ELSE LowerChar(SubSeq(s, 1, 1)) \o Lower(SubSeq(s, 2, Len(s)))

RECURSIVE Upper(_)
\* str.upper
Upper(s) ==
    IF Len(s) = 0 THEN ""
    ELSE UpperChar(SubSeq(s, 1, 1)) \o Upper(SubSeq(s, 2, Len(s)))

\* str.startswith
StartsWith(s, p) == Len(p) <= Len(s) /\ SubSeq(s, 1, Len(p)) = p

\* str.endswith
EndsWith(s, p) ==
    Len(p) <= Len(s) /\ SubSeq(s, Len(s) - Len(p) + 1, Len(s)) = p

\* the substring test: p in s
Contains(s, p) ==
    \E i \in 1..(Len(s) - Len(p) + 1) : SubSeq(s, i, i + Len(p) - 1) = p

RECURSIVE Remove(_, _)
\* s.replace(old, ''), old not empty
Remove(s, old) ==
    IF Len(s) < Len(old) THEN s
    ELSE IF StartsWith(s, old)
         THEN Remove(SubSeq(s, Len(old) + 1, Len(s)), old)
         ELSE SubSeq(s, 1, 1) \o Remove(SubSeq(s, 2, Len(s)), old)

\* PurePath.suffix: the name from its last dot on, unless that dot is the
\* first or the last character
suffix(name) ==
    LET dots == {i \in 1..Len(name) : SubSeq(name, i, i) = "."}
        i == IF dots = {} THEN 0
             ELSE CHOOSE m \in dots : \A j \in dots : j <= m
    IN  IF i > 1 /\ i < Len(name) THEN SubSeq(name, i, Len(name)) ELSE ""

RECURSIVE PathStr(_)
\* str(path) of a relative path, "." for the empty one
PathStr(parts) ==
    IF Len(parts) = 0 THEN "."
    ELSE IF Len(parts) = 1 THEN parts[1]
    ELSE parts[1] \o "/" \o PathStr(Tail(parts))

RECURSIVE SplitSep(_, _, _)
\* s.split(os.sep), cur being the piece under way and acc the pieces done
SplitSep(s, cur, acc) ==
    IF Len(s) = 0 THEN Append(acc, cur)
    ELSE IF SubSeq(s, 1, 1) = "/"
         THEN SplitSep(SubSeq(s, 2, Len(s)), "", Append(acc, cur))
         ELSE SplitSep(SubSeq(s, 2, Len(s)), cur \o SubSeq(s, 1, 1), acc)

\* the elements of a sequence
Range(seq) == {seq[i] : i \in DOMAIN seq}

(* ------------------------------ paths --------------------------------- *)

Files == {"f1", "f2"}

Root == <<>>

\* Python's None in a path field of a Proposal
None == <<"<None>">>

A == <<"a">>

B == <<"b">>

S == <<"s">>

SA == <<"s", "a">>

SB == <<"s", "b">>

BA == <<"b", "a">>

BXA == <<"b", "x", "a">>

Parent(p) == SubSeq(p, 1, Len(p) - 1)

IsPrefix(s, q) == Len(q) >= Len(s) /\ SubSeq(q, 1, Len(s)) = s

Rebase(s, t, q) == t \o SubSeq(q, Len(s) + 1, Len(q))

Exists(f, p) == p = Root \/ p \in DOMAIN f

IsDir(f, p) == p = Root \/ (p \in DOMAIN f /\ f[p] = "dir")

IsFile(f, p) == p \in DOMAIN f /\ f[p] \in Files

\* Path.mkdir(parents=True, exist_ok=True): ok is FALSE when it raises
RECURSIVE Mkdir(_, _)
Mkdir(f, d) ==
    IF Exists(f, d)
    THEN [ok |-> IsDir(f, d), fs |-> f]
    ELSE LET up == Mkdir(f, Parent(d))
         IN  IF up.ok
             THEN [ok |-> TRUE, fs |-> up.fs @@ (d :> "dir")]
             ELSE [ok |-> FALSE, fs |-> f]

\* shutil.move(src, dst): ok is FALSE when it raises
ShutilMove(f, s, t) ==
    LET dst == IF IsDir(f, t) THEN Append(t, s[Len(s)]) ELSE t
        kept == {q \in DOMAIN f : ~IsPrefix(s, q) /\ ~IsPrefix(dst, q)}
        moved == {Rebase(s, dst, q) : q \in {r \in DOMAIN f : IsPrefix(s, r)}}
    IN  IF \/ ~Exists(f, s)
           \/ s = Root
           \/ (IsDir(f, t) /\ Exists(f, dst))
           \/ ~IsDir(f, Parent(dst))
           \/ (IsDir(f, s) /\ (IsPrefix(s, dst) \/ Exists(f, dst)))
        THEN [ok |-> FALSE, fs |-> f]
        ELSE [ok |-> TRUE,
              fs |-> [q \in kept \cup moved |->
                        IF IsPrefix(dst, q) THEN f[Rebase(dst, s, q)] ELSE f[q]]]

(* ----------------------------- executor ------------------------------- *)

\* ExecutionResult: the proposal's action and paths with the outcome
ExecutionResult(p, success, message, skipped) ==
    [action |-> p.action, source |-> p.source, target |-> p.target,
     success |-> success, skipped |-> skipped, message |-> message]

\* ExecutionResult.to_dict: str(source_path) turns a missing source into the
\* text "None"; a missing target is written as null
to_dict(r) ==
    [r EXCEPT !.source = IF r.source = None THEN <<"None">> ELSE r.source]

\* _validate_move without the check that the target is free
_validate_move_no_conflict(f, p) ==
    IF p.source = None THEN "Source path is None"
    ELSE IF p.target = None THEN "Target path is None"
    ELSE IF ~Exists(f, p.source) THEN "Source file does not exist"
    ELSE IF ~IsFile(f, p.source) THEN "Source is not a file"
    ELSE IF Exists(f, Parent(p.target)) /\ ~IsDir(f, Parent(p.target))
         THEN "Target parent exists but is not a directory"
    ELSE ""

\* _validate_move without the check that the source is a regular file
_validate_move_any_source(f, p) ==
    IF p.source = None THEN "Source path is None"
    ELSE IF p.target = None THEN "Target path is None"
    ELSE IF ~Exists(f, p.source) THEN "Source file does not exist"
    ELSE IF Exists(f, p.target) THEN "Target already exists (conflict)"
    ELSE IF Exists(f, Parent(p.target)) /\ ~IsDir(f, Parent(p.target))
         THEN "Target parent exists but is not a directory"
    ELSE ""

\* _validate_move: the error text, or "" for no error
_validate_move(f, p) ==
    IF p.source = None THEN "Source path is None"
    ELSE IF p.target = None THEN "Target path is None"
    ELSE IF ~Exists(f, p.source) THEN "Source file does not exist"
    ELSE IF ~IsFile(f, p.source) THEN "Source is not a file"
    ELSE IF Exists(f, p.target) THEN "Target already exists (conflict)"
    ELSE IF Exists(f, Parent(p.target)) /\ ~IsDir(f, Parent(p.target))
         THEN "Target parent exists but is not a directory"
    ELSE ""

\* the body shared by _execute_move and the live branch of rollback_moves:
\* create the missing parent directories, then move; ok is FALSE on a raise
MoveWithParents(f, s, t) ==
    LET made == IF Exists(f, Parent(t))
                THEN [ok |-> TRUE, fs |-> f]
                ELSE Mkdir(f, Parent(t))
    IN  IF made.ok THEN ShutilMove(made.fs, s, t) ELSE made

_execute_move(f, p) == MoveWithParents(f, p.source, p.target)

\* execute_proposal that moves the file in dry-run mode too
execute_proposal_always_live(f, dry, p) ==
    IF p.action # "move"
    THEN [fs |-> f,
          result |-> ExecutionResult(p, FALSE, "Unsupported action", TRUE)]
    ELSE LET err == _validate_move(f, p)
         IN  IF err # ""
             THEN [fs |-> f, result |-> ExecutionResult(p, FALSE, err, FALSE)]
             ELSE LET done == _execute_move(f, p)
                  IN  IF done.ok
                      THEN [fs |-> done.fs,
                            result |-> ExecutionResult(p, TRUE,
                                IF dry THEN "[DRY-RUN] Would move" ELSE "Moved", FALSE)]
                      ELSE [fs |-> done.fs,
                            result |-> ExecutionResult(p, FALSE, "Failed to execute", FALSE)]

\* execute_proposal: the result and the filesystem it leaves
execute_proposal(f, dry, p) ==
    IF p.action # "move"
    THEN [fs |-> f,
          result |-> ExecutionResult(p, FALSE, "Unsupported action", TRUE)]
    ELSE LET err == _validate_move(f, p)
         IN  IF err # ""
             THEN [fs |-> f, result |-> ExecutionResult(p, FALSE, err, FALSE)]
             ELSE IF dry
             THEN [fs |-> f,
                   result |-> ExecutionResult(p, TRUE, "[DRY-RUN] Would move", FALSE)]
             ELSE LET done == _execute_move(f, p)
                  IN  IF done.ok
                      THEN [fs |-> done.fs,
                            result |-> ExecutionResult(p, TRUE, "Moved", FALSE)]
                      ELSE [fs |-> done.fs,
                            result |-> ExecutionResult(p, FALSE, "Failed to execute", FALSE)]

\* the log file as json.load sees it: the entries, or nothing when the file
\* is missing or cannot be parsed
LoadHistory(lf) == IF lf.exists /\ lf.readable THEN lf.entries ELSE <<>>

WriteHistory(h) == [exists |-> TRUE, readable |-> TRUE, entries |-> h]

RECURSIVE MapToDict(_)
MapToDict(rs) ==
    IF rs = <<>> THEN <<>> ELSE <<to_dict(Head(rs))>> \o MapToDict(Tail(rs))

\* save_history that writes the results over the earlier entries
save_history_overwrite(lf, rs) ==
    IF rs = <<>> THEN lf ELSE WriteHistory(MapToDict(rs))

\* save_history: nothing without results, else read, extend, write
save_history(lf, rs) ==
    IF rs = <<>> THEN lf ELSE WriteHistory(LoadHistory(lf) \o MapToDict(rs))

RECURSIVE FilterMoves(_)
FilterMoves(h) ==
    IF h = <<>> THEN <<>>
    ELSE LET e == Head(h)
         IN  (IF Upper(e.action) = "MOVE" /\ e.success /\ ~e.skipped
              THEN <<e>> ELSE <<>>) \o FilterMoves(Tail(h))

\* Python's seq[start:]
SliceFrom(seq, start) ==
    LET n == Len(seq)
        k == IF start < 0 THEN (IF n + start < 0 THEN 0 ELSE n + start)
             ELSE (IF start > n THEN n ELSE start)
    IN  SubSeq(seq, k + 1, n)

RECURSIVE Reverse(_)
Reverse(seq) ==
    IF seq = <<>> THEN <<>> ELSE Append(Reverse(Tail(seq)), Head(seq))

\* the slice of rollback_moves without the reverse()
MovesToUndo_fifo(moves, count) ==
    IF count < Len(moves) THEN SliceFrom(moves, -count) ELSE moves

\* moves[-count:] if count < len(moves) else moves, then reversed
MovesToUndo(moves, count) ==
    Reverse(IF count < Len(moves) THEN SliceFrom(moves, -count) ELSE moves)

\* the Proposal a rollback result carries: target and source swapped
RollbackProposal(e) == [action |-> "move", source |-> e.target, target |-> e.source]

\* one pass of the loop body of rollback_moves; abort is the break
UndoStep(f, e, dry) ==
    LET p == RollbackProposal(e)
    IN  IF ~Exists(f, p.source)
        THEN [fs |-> f, abort |-> TRUE,
              result |-> ExecutionResult(p, FALSE,
                  "Rollback validation failed: Target file does not exist", FALSE)]
        ELSE IF Exists(f, p.target)
        THEN [fs |-> f, abort |-> TRUE,
              result |-> ExecutionResult(p, FALSE,
                  "Rollback validation failed: Source location already exists (conflict)", FALSE)]
        ELSE IF dry
        THEN [fs |-> f, abort |-> FALSE,
              result |-> ExecutionResult(p, TRUE, "[DRY-RUN] Would rollback", FALSE)]
        ELSE LET done == MoveWithParents(f, p.source, p.target)
             IN  IF done.ok
                 THEN [fs |-> done.fs, abort |-> FALSE,
                       result |-> ExecutionResult(p, TRUE, "Rolled back", FALSE)]
                 ELSE [fs |-> done.fs, abort |-> TRUE,
                       result |-> ExecutionResult(p, FALSE, "Rollback failed", FALSE)]

\* the loop of rollback_moves with the break after a failed step left out
RECURSIVE UndoLoop_continue(_, _, _, _, _)
UndoLoop_continue(f, todo, dry, acc, seen) ==
    IF todo = <<>>
    THEN [fs |-> f, results |-> acc, seen |-> seen]
    ELSE LET step == UndoStep(f, Head(todo), dry)
         IN  UndoLoop_continue(step.fs, Tail(todo), dry,
                               Append(acc, step.result), Append(seen, f))

\* the for loop of rollback_moves; seen lists the filesystem each attempted
\* step started from
RECURSIVE UndoLoop(_, _, _, _, _)
UndoLoop(f, todo, dry, acc, seen) ==
    IF todo = <<>>
    THEN [fs |-> f, results |-> acc, seen |-> seen]
    ELSE LET step == UndoStep(f, Head(todo), dry)
         IN  IF step.abort
             THEN [fs |-> step.fs, results |-> Append(acc, step.result),
                   seen |-> Append(seen, f)]
             ELSE UndoLoop(step.fs, Tail(todo), dry,
                           Append(acc, step.result), Append(seen, f))

RECURSIVE TagRollback(_)
TagRollback(rs) ==
    IF rs = <<>> THEN <<>>
    ELSE <<[to_dict(Head(rs)) EXCEPT !.action = "ROLLBACK"]>> \o TagRollback(Tail(rs))

\* _save_rollback_history that logs only the steps that succeeded
_save_rollback_history_successes(lf, rs) ==
    IF rs = <<>> THEN lf
    ELSE WriteHistory(LoadHistory(lf) \o SelectSeq(TagRollback(rs), LAMBDA e : e.success))

\* _save_rollback_history
_save_rollback_history(lf, rs) ==
    IF rs = <<>> THEN lf ELSE WriteHistory(LoadHistory(lf) \o TagRollback(rs))

\* rollback_moves: the returned results, the filesystem and the log it leaves
rollback_moves(f, lf, dry, count) ==
    IF ~lf.exists \/ ~lf.readable
    THEN [fs |-> f, log |-> lf, results |-> <<>>, seen |-> <<>>]
    ELSE LET moves == FilterMoves(lf.entries)
         IN  IF moves = <<>>
             THEN [fs |-> f, log |-> lf, results |-> <<>>, seen |-> <<>>]
             ELSE LET run == UndoLoop(f, MovesToUndo(moves, count), dry, <<>>, <<>>)
                  IN  [fs |-> run.fs,
                       results |-> run.results,
                       seen |-> run.seen,
                       log |-> IF ~dry /\ run.results # <<>>
                               THEN _save_rollback_history(lf, run.results)
                               ELSE lf]

(* --------------------------- state machine ---------------------------- *)

\* the Move proposals of the executor's life cycle
Moves ==
    {[action |-> "move", source |-> B, target |-> SB],
     [action |-> "move", source |-> A, target |-> B],
     [action |-> "move", source |-> A, target |-> BA]}

\* every kind of proposal execute_proposal tells apart
Proposals ==
    Moves \cup
    {[action |-> "move", source |-> A, target |-> BXA],
     [action |-> "move", source |-> S, target |-> SA],
     [action |-> "move", source |-> None, target |-> B],
     [action |-> "move", source |-> A, target |-> None],
     [action |-> "flag", source |-> A, target |-> None],
     [action |-> "delete", source |-> A, target |-> None]}

Counts == {-1, 0, 1, 2, 3}

NoProposal == [action |-> "", source |-> None, target |-> None]

NoLog == [exists |-> FALSE, readable |-> FALSE, entries |-> <<>>]

BadLog == [exists |-> TRUE, readable |-> FALSE, entries |-> <<>>]

\* the record of a call: its name and arguments, the state it started from
\* and what it returned
Call(op, p, n, ret, seen) ==
    [op |-> op, proposal |-> p, count |-> n, dry |-> dry_run,
     fs0 |-> fs, log0 |-> logFile, ret |-> ret, seen |-> seen]

\* the apply command is not running
ApplyIdle ==
    [pc |-> "idle", yes |-> FALSE, move_proposals |-> <<>>, i |-> 0,
     confirm |-> "", typed |-> <<>>, executed |-> {}, applied_count |-> 0,
     skipped_count |-> 0]

\* the filesystem every run starts from: two files at the repository root
InitFs == (A :> "f1") @@ (B :> "f2")

InitExec ==
    /\ fs = InitFs
    /\ logFile \in {NoLog, BadLog}
    /\ dry_run \in BOOLEAN
    /\ results = <<>>
    /\ steps = 0
    /\ last = [op |-> "__init__", proposal |-> NoProposal, count |-> 0,
               dry |-> dry_run, fs0 |-> fs, log0 |-> logFile, ret |-> <<>>,
               seen |-> <<>>]

\* a StructureReasoner not yet made
ReasonerIdle ==
    [stage |-> "idle", repo_type |-> "none", dropped |-> 0,
     proposals |-> <<>>]

InitReasoner == files = <<>> /\ disk = {} /\ reasoner = ReasonerIdle

\* FileClassifier.__init__: nothing cached, no call made
ClassifierIdle ==
    [stage |-> "idle", classifications |-> {}, subject |-> <<>>,
     first |-> <<>>, again |-> <<>>, others |-> 0]

\* no ImportAnalyzer made yet
ImportAnalyzerIdle ==
    [stage |-> "idle", repo |-> <<>>, proposals |-> <<>>, warnings |-> <<>>]

\* no ConfidenceScore made yet
ScorerIdle == [stage |-> "idle", score |-> <<>>, previous |-> <<>>]

Init ==
    /\ InitExec
    /\ apply = ApplyIdle
    /\ InitReasoner
    /\ classifier = ClassifierIdle
    /\ scorer = ScorerIdle
    /\ analyzer = ImportAnalyzerIdle

Step(bound) == steps < bound /\ steps' = steps + 1

\* ProposalExecutor(repo_path, dry_run): a new executor on the same repository
Construct(bound) ==
    \E d \in BOOLEAN :
        /\ Step(bound)
        /\ dry_run' = d
        /\ results' = <<>>
        /\ last' = [Call("__init__", NoProposal, 0, <<>>, <<>>) EXCEPT !.dry = d]
        /\ UNCHANGED <<fs, logFile>>
        /\ UNCHANGED nonExecVars

Execute(bound, P) ==
    \E p \in P :
        LET out == execute_proposal(fs, dry_run, p)
        IN  /\ Step(bound)
            /\ fs' = out.fs
            /\ results' = Append(results, out.result)
            /\ last' = Call("execute_proposal", p, 0, <<out.result>>, <<fs>>)
            /\ UNCHANGED <<logFile, dry_run>>
            /\ UNCHANGED nonExecVars

NewExecutor == Construct(MaxSteps)

ExecuteProposal == Execute(MaxSteps, Moves)

SaveHistory ==
    /\ Step(MaxSteps)
    /\ logFile' = save_history(logFile, results)
    /\ last' = Call("save_history", NoProposal, 0, <<>>, <<>>)
    /\ UNCHANGED <<fs, dry_run, results>>
    /\ UNCHANGED nonExecVars

RollbackMoves ==
    \E n \in Counts :
        LET out == rollback_moves(fs, logFile, dry_run, n)
        IN  /\ Step(MaxSteps)
            /\ fs' = out.fs
            /\ logFile' = out.log
            /\ last' = Call("rollback_moves", NoProposal, n, out.results, out.seen)
            /\ UNCHANGED <<dry_run, results>>
            /\ UNCHANGED nonExecVars

Next == NewExecutor \/ ExecuteProposal \/ SaveHistory \/ RollbackMoves

Spec == Init /\ [][Next]_vars

\* execute_proposal alone, over every kind of proposal
NewExecutorOnly == Construct(MaxExecSteps)

ExecuteAnyProposal == Execute(MaxExecSteps, Proposals)

NextExec == NewExecutorOnly \/ ExecuteAnyProposal

SpecExec == Init /\ [][NextExec]_vars

(* ------------------------- executor properties ------------------------ *)

IsExecute == last.op = "execute_proposal"

IsRollback == last.op = "rollback_moves"

IsSave == last.op = "save_history"

\* where the file x is stored
PlacesOf(f, x) == {p \in DOMAIN f : f[p] = x}

\* the entries of a log file, none when it is absent
EntriesOf(lf) == IF lf.exists THEN lf.entries ELSE <<>>

IsSuccessfulMove(e) == e.action \in {"move", "MOVE"} /\ e.success /\ ~e.skipped

\* the successful Move entries of the log the last call started from
LoggedMoves == SelectSeq(EntriesOf(last.log0), IsSuccessfulMove)

HasDryRunMarker(m) == m \in {"[DRY-RUN] Would move", "[DRY-RUN] Would rollback"}

\* the validation of a Move as section 4.7 of the specification words it
PassesValidation(f, p) ==
    /\ p.source # None
    /\ p.target # None
    /\ p.source \in DOMAIN f
    /\ f[p.source] # "dir"
    /\ p.target \notin DOMAIN f
    /\ (Parent(p.target) \in DOMAIN f => f[Parent(p.target)] = "dir")

\* C1: no call of execute_proposal or rollback_moves, dry-run or live, loses
\* or overwrites a file: every file stays stored at exactly one path, and a
\* Move or an undo step that finds its destination occupied fails and leaves
\* the filesystem as that step found it.
C1_NoOverwrite ==
    /\ \A x \in Files : Cardinality(PlacesOf(fs, x)) = 1
    /\ (IsExecute \/ IsRollback) =>
         \A i \in 1 .. Len(last.ret) :
            (/\ last.ret[i].source # None
             /\ last.ret[i].target # None
             /\ last.ret[i].action = "move"
             /\ last.ret[i].target \in DOMAIN last.seen[i])
            => /\ ~last.ret[i].success
               /\ i = Len(last.ret)
               /\ fs = last.seen[i]

\* a live Move onto a path that holds another file was refused
C1_Witness ==
    /\ IsExecute
    /\ ~last.dry
    /\ IsFile(last.fs0, last.proposal.source)
    /\ IsFile(last.fs0, last.proposal.target)
    /\ ~last.ret[1].success

\* C2: in dry-run mode execute_proposal and rollback_moves leave the
\* filesystem as it was, and every step that passes validation is reported
\* with success=true and a [DRY-RUN] message.
C2_DryRunFrame ==
    (last.dry /\ (IsExecute \/ IsRollback)) =>
        /\ fs = last.fs0
        /\ (IsExecute /\ last.proposal.action = "move"
                      /\ PassesValidation(last.fs0, last.proposal))
             => (last.ret[1].success /\ HasDryRunMarker(last.ret[1].message))
        /\ IsRollback =>
             \A i \in 1 .. Len(last.ret) :
                (last.ret[i].source \in DOMAIN last.fs0
                 /\ last.ret[i].target \notin DOMAIN last.fs0)
                => (last.ret[i].success /\ HasDryRunMarker(last.ret[i].message))

\* a dry-run rollback previewed an undo step on a filesystem that holds moved files
C2_Witness ==
    /\ IsRollback
    /\ last.dry
    /\ Len(last.ret) >= 1
    /\ last.ret[1].success
    /\ HasDryRunMarker(last.ret[1].message)

\* the paths whose content differs between two filesystems
Touched(f, g) ==
    {p \in DOMAIN f \cup DOMAIN g : ~(p \in DOMAIN f /\ p \in DOMAIN g /\ f[p] = g[p])}

Related(p, q) == IsPrefix(p, q) \/ IsPrefix(q, p)

\* C3: rollback is LIFO: with K successful Move entries in the log and
\* 0 < N <= K, the i-th undo step of rollback_moves(N) is the undo of the
\* i-th most recent Move, all N are attempted unless one fails, and only
\* paths of the N most recent Moves change.
C3_Lifo ==
    (IsRollback /\ last.count > 0 /\ last.count <= Len(LoggedMoves)) =>
        LET K == Len(LoggedMoves)
            N == last.count
        IN  /\ Len(last.ret) <= N
            /\ (\A i \in 1 .. Len(last.ret) : last.ret[i].success) => Len(last.ret) = N
            /\ \A i \in 1 .. Len(last.ret) :
                  /\ last.ret[i].source = LoggedMoves[K - i + 1].target
                  /\ last.ret[i].target = LoggedMoves[K - i + 1].source
            /\ \A p \in Touched(last.fs0, fs) :
                  \E j \in (K - N + 1) .. K :
                     Related(p, LoggedMoves[j].source) \/ Related(p, LoggedMoves[j].target)

\* a live rollback of two different Moves undid both
C3_Witness ==
    /\ IsRollback
    /\ ~last.dry
    /\ last.count = 2
    /\ Len(LoggedMoves) = 2
    /\ LoggedMoves[1] # LoggedMoves[2]
    /\ Len(last.ret) = 2
    /\ last.ret[2].success

\* C4: rollback is fail-fast: a failed undo step is the last element of the
\* returned list, and from that step on nothing is moved.
C4_FailFast ==
    IsRollback =>
        \A i \in 1 .. Len(last.ret) :
            ~last.ret[i].success => (i = Len(last.ret) /\ fs = last.seen[i])

\* a rollback of two Moves stopped at the first step, with one entry left
C4_Witness ==
    /\ IsRollback
    /\ ~last.dry
    /\ last.count = 2
    /\ Len(LoggedMoves) >= 2
    /\ Len(last.ret) = 1
    /\ ~last.ret[1].success

\* the run so far is K successful live Moves by one executor, save_history,
\* and a live rollback_moves(K)
IsRoundTrip ==
    /\ IsRollback
    /\ ~last.dry
    /\ results # <<>>
    /\ \A i \in 1 .. Len(results) : results[i].success
    /\ last.count = Len(results)
    /\ steps = Len(results) + 2
    /\ EntriesOf(last.log0) = results

\* C5: apply followed by rollback is a round trip: after K successful live
\* Moves saved with save_history, a live rollback_moves(K) leaves every file
\* at the path it started from.
C5_RoundTrip ==
    IsRoundTrip => \A x \in Files : PlacesOf(fs, x) = PlacesOf(InitFs, x)

\* the log entry of a rollback result: the result's fields under the
\* action ROLLBACK
RollbackEntry(r) == [r EXCEPT !.action = "ROLLBACK"]

RECURSIVE RollbackEntries(_)
RollbackEntries(rs) ==
    IF rs = <<>> THEN <<>> ELSE <<RollbackEntry(Head(rs))>> \o RollbackEntries(Tail(rs))

IsSuccess(r) == r.success

\* C8 as claimed: a live rollback_moves appends one ROLLBACK entry for each
\* Move it rolled back successfully and no other entry; a dry-run rollback
\* leaves the log unchanged.
C8_OnlySuccessesLogged ==
    IsRollback =>
        IF last.dry
        THEN logFile = last.log0
        ELSE EntriesOf(logFile) =
                EntriesOf(last.log0) \o RollbackEntries(SelectSeq(last.ret, IsSuccess))

\* C8 amended: a live rollback_moves appends one ROLLBACK entry for each
\* result it returns, in order, the failed step that ended the batch
\* included, and keeps every earlier entry; a dry-run rollback leaves the
\* log unchanged.
C8_EveryResultLogged ==
    IsRollback =>
        IF last.dry
        THEN logFile = last.log0
        ELSE EntriesOf(logFile) = EntriesOf(last.log0) \o RollbackEntries(last.ret)

\* a live rollback undid one Move, failed on the next, and logged both steps
C8_Witness ==
    /\ IsRollback
    /\ ~last.dry
    /\ Len(last.ret) = 2
    /\ last.ret[1].success
    /\ ~last.ret[2].success
    /\ Len(EntriesOf(logFile)) = Len(EntriesOf(last.log0)) + 2

\* C9: save_history appends: when the log was absent or readable, the log
\* after the call is the log before it followed by the executor's results
\* in execution order.
C9_AppendOnly ==
    (IsSave /\ (~last.log0.exists \/ last.log0.readable)) =>
        /\ Len(EntriesOf(logFile)) = Len(EntriesOf(last.log0)) + Len(results)
        /\ \A i \in 1 .. Len(EntriesOf(last.log0)) :
              EntriesOf(logFile)[i] = EntriesOf(last.log0)[i]
        /\ \A i \in 1 .. Len(results) :
              LET e == EntriesOf(logFile)[Len(EntriesOf(last.log0)) + i]
              IN  /\ e.action = results[i].action
                  /\ e.source = results[i].source
                  /\ e.target = results[i].target
                  /\ e.success = results[i].success
                  /\ e.skipped = results[i].skipped
                  /\ e.message = results[i].message

\* a second executor saved its results behind the entries of an earlier run
C9_Witness ==
    /\ IsSave
    /\ Len(EntriesOf(last.log0)) >= 1
    /\ Len(results) >= 1
    /\ EntriesOf(last.log0)[1] # results[1]
    /\ Len(EntriesOf(logFile)) >= 2

\* the Moves the claim names as refused
IsRefusedMove(f, p) ==
    \/ p.source = None
    \/ p.target = None
    \/ p.source \notin DOMAIN f
    \/ f[p.source] = "dir"
    \/ p.target \in DOMAIN f
    \/ (Parent(p.target) \in DOMAIN f /\ f[Parent(p.target)] # "dir")

\* C10: execute_proposal leaves the filesystem alone whenever it does not
\* succeed; a Flag or Delete gives success=false with skipped=true; a Move
\* with a missing path, a source that is absent or no regular file, an
\* existing target, or a target parent that is no directory gives
\* success=false with skipped=false.
C10_FailureFrame ==
    IsExecute =>
        LET r == last.ret[1]
            p == last.proposal
        IN  /\ ~r.success => fs = last.fs0
            /\ p.action \in {"flag", "delete"} => (~r.success /\ r.skipped)
            /\ (p.action = "move" /\ IsRefusedMove(last.fs0, p))
                  => (~r.success /\ ~r.skipped)

\* a live Move whose source is a directory was refused
C10_Witness ==
    /\ IsExecute
    /\ ~last.dry
    /\ last.proposal.action = "move"
    /\ IsDir(last.fs0, last.proposal.source)
    /\ ~last.ret[1].success
    /\ ~last.ret[1].skipped

(* ---------------------- the apply command (cli.py) -------------------- *)

\* what the user may type at the prompt; "" is the bare Enter key
Responses == {"y", "yes", "Y", "n", "no", "", "v", "q", "Q", "maybe"}

\* click.prompt(..., type=str, default='n'): the default stands for no input
Prompt(typed) == IF typed = "" THEN "n" ELSE typed

\* every branch of the approval loop that is not y/yes approves
Approval_lenient(response) ==
    IF response = "v" THEN "details"
    ELSE IF response = "q" THEN "quit"
    ELSE IF response \in {"n", "no"} THEN "skipped"
    ELSE "approved"

\* the branch of the approval loop a response takes
Approval(response) ==
    IF response = "v" THEN "details"
    ELSE IF response = "q" THEN "quit"
    ELSE IF response \in {"y", "yes"} THEN "approved"
    ELSE IF response \in {"n", "no"} THEN "skipped"
    ELSE "invalid"

\* the sequences of distinct Move proposals, one to MaxProposals long
ProposalLists ==
    {l \in UNION {[1..n -> Moves] : n \in 1..MaxProposals} :
        \A j, k \in DOMAIN l : j # k => l[j] # l[k]}

\* get_summary()['successful']
Successful(rs) == Len(SelectSeq(rs, LAMBDA r : r.success))

\* the apply command has its Move proposals and is about to show its mode
InitApply ==
    /\ InitExec
    /\ InitReasoner
    /\ classifier = ClassifierIdle
    /\ scorer = ScorerIdle
    /\ analyzer = ImportAnalyzerIdle
    /\ \E y \in BOOLEAN, l \in ProposalLists :
        apply = [ApplyIdle EXCEPT !.pc = "mode", !.yes = y,
                                  !.move_proposals = l,
                                  !.typed = [j \in DOMAIN l |-> "<none>"]]

\* the for loop moves on to the next proposal, or to the summary
NextProposal(a) ==
    IF a.i < Len(a.move_proposals)
    THEN [a EXCEPT !.i = a.i + 1]
    ELSE [a EXCEPT !.pc = "summary"]

\* the executor is created and the loop starts at the first proposal
StartLoop(a) ==
    /\ apply' = [a EXCEPT !.pc = "proposal", !.i = 1]
    /\ results' = <<>>
    /\ UNCHANGED <<fs, logFile, dry_run, last, steps>>

\* approved: executor.execute_proposal(proposal), then the next proposal
RunProposal(a) ==
    LET p == a.move_proposals[a.i]
        out == execute_proposal(fs, dry_run, p)
    IN  /\ fs' = out.fs
        /\ results' = Append(results, out.result)
        /\ last' = Call("execute_proposal", p, 0, <<out.result>>, <<fs>>)
        /\ apply' = NextProposal(
               [a EXCEPT !.executed = @ \cup {a.i},
                         !.applied_count =
                             IF out.result.success THEN @ + 1 ELSE @])
        /\ UNCHANGED <<logFile, dry_run, steps>>

\* the mode banner: dry-run and --yes go straight to the loop
ApplyMode ==
    /\ UNCHANGED reasonerVars
    /\ apply.pc = "mode"
    /\ IF dry_run \/ apply.yes
       THEN StartLoop(apply)
       ELSE /\ apply' = [apply EXCEPT !.pc = "confirm"]
            /\ UNCHANGED <<fs, logFile, dry_run, results, last, steps>>

\* click.confirm("Continue?", default=False)
ApplyConfirm ==
    /\ UNCHANGED reasonerVars
    /\ apply.pc = "confirm"
    /\ \E c \in BOOLEAN :
        IF c
        THEN StartLoop([apply EXCEPT !.confirm = "yes"])
        ELSE /\ apply' = [apply EXCEPT !.pc = "done", !.confirm = "no"]
             /\ UNCHANGED <<fs, logFile, dry_run, results, last, steps>>

\* one proposal of the loop under --yes
ApplyAuto ==
    /\ UNCHANGED reasonerVars
    /\ apply.pc = "proposal"
    /\ apply.yes
    /\ RunProposal(apply)

\* one answer to "Apply this change?" and what the loop does with it
ApplyPrompt ==
    /\ UNCHANGED reasonerVars
    /\ apply.pc = "proposal"
    /\ ~apply.yes
    /\ \E t \in Responses :
        LET response == Lower(Prompt(t))
            branch == Approval(response)
            a == [apply EXCEPT !.typed[apply.i] = t]
        IN  CASE branch = "approved" -> RunProposal(a)
              [] branch = "skipped" ->
                    /\ apply' = NextProposal(
                           [a EXCEPT !.skipped_count = @ + 1])
                    /\ UNCHANGED <<fs, logFile, dry_run, results, last, steps>>
              [] branch = "quit" ->
                    /\ apply' = [a EXCEPT !.pc = "summary"]
                    /\ UNCHANGED <<fs, logFile, dry_run, results, last, steps>>
              [] OTHER ->
                    /\ apply' = a
                    /\ UNCHANGED <<fs, logFile, dry_run, results, last, steps>>

\* the summary, and the log saved after a live run with a success
ApplySummary ==
    /\ UNCHANGED reasonerVars
    /\ apply.pc = "summary"
    /\ apply' = [apply EXCEPT !.pc = "done"]
    /\ logFile' = IF ~dry_run /\ Successful(results) > 0
                  THEN save_history(logFile, results)
                  ELSE logFile
    /\ UNCHANGED <<fs, dry_run, results, last, steps>>

NextApply ==
    ApplyMode \/ ApplyConfirm \/ ApplyAuto \/ ApplyPrompt \/ ApplySummary

SpecApply == InitApply /\ [][NextApply]_vars

(* ------------------------ apply-command properties -------------------- *)

\* what a user types to say yes, to say no, to quit
TypedYes == {"y", "yes", "Y"}

TypedNo == {"n", "no", ""}

TypedQuit == {"q", "Q"}

\* the proposals the executor was called for, in the order of the calls
ExecutedList ==
    LET idx == apply.executed
        F[j \in 0..Len(apply.move_proposals)] ==
            IF j = 0 THEN <<>>
            ELSE IF j \in idx THEN Append(F[j - 1], apply.move_proposals[j])
            ELSE F[j - 1]
    IN  F[Len(apply.move_proposals)]

\* C7: in the apply command the executor is called for a proposal only when
\* --yes is set or the last answer to that proposal was y/yes (in any
\* case); the executor's results are those of exactly the proposals so
\* approved; a proposal answered n, no or the bare default is not executed;
\* after q neither the proposal it answered nor any later one is executed;
\* and nothing is executed when "Continue?" was declined.
C7_ApprovedBeforeExecuted ==
    apply.pc # "idle" =>
        /\ Len(results) = Cardinality(apply.executed)
        /\ \A k \in 1..Len(results) :
              /\ results[k].source = ExecutedList[k].source
              /\ results[k].target = ExecutedList[k].target
        /\ \A j \in DOMAIN apply.move_proposals :
              /\ j \in apply.executed
                    => (apply.yes \/ apply.typed[j] \in TypedYes)
              /\ (~apply.yes /\ apply.typed[j] \in TypedNo)
                    => j \notin apply.executed
              /\ (~apply.yes /\ apply.typed[j] \in TypedQuit)
                    => \A k \in DOMAIN apply.move_proposals :
                          k >= j => k \notin apply.executed
        /\ apply.confirm = "no" => (results = <<>> /\ fs = InitFs)

\* an interactive live run in which the first proposal was declined with the
\* default, the second approved and executed, and the run has finished
C7_Witness ==
    /\ apply.pc = "done"
    /\ ~apply.yes
    /\ ~dry_run
    /\ Len(apply.move_proposals) = 2
    /\ apply.typed[1] = ""
    /\ apply.typed[2] \in TypedYes
    /\ apply.executed = {2}
    /\ Len(results) = 1
    /\ results[1].success
    /\ fs # InitFs

(* ------------------- file records (analyzer.py) ----------------------- *)

\* FileMetadata: the fields the detector, the classifier and the reasoner
\* read; relative_path is the sequence of the path's parts
FileMetadata(parts, imports, is_executable, has_tests) ==
    [relative_path |-> parts,
     name |-> parts[Len(parts)],
     extension |-> suffix(parts[Len(parts)]),
     imports |-> imports,
     is_executable |-> is_executable,
     has_tests |-> has_tests]

(* ------------------ repository type (repo_type.py) -------------------- *)

PYTHON_ROOT_FILES ==
    {"setup.py", "setup.cfg", "pyproject.toml", "requirements.txt",
     "Pipfile", "poetry.lock", "tox.ini", "pytest.ini"}

FRONTEND_FILES ==
    {"package.json", "package-lock.json", "yarn.lock", "angular.json",
     "tsconfig.json", "webpack.config.js", "vite.config.js", "next.config.js"}

JAVA_FILES == {"pom.xml", "build.gradle", "gradlew"}

RUBY_FILES == {"Gemfile", "Rakefile"}

GO_FILES == {"go.mod", "go.sum"}

\* extension_counts.get(ext, 0), a file without extension counting under
\* 'no_extension'
extension_counts(fl, ext) ==
    Cardinality({i \in DOMAIN fl :
        (IF fl[i].extension = "" THEN "no_extension" ELSE fl[i].extension)
            = ext})

\* the names of the files at the repository root
root_files(fl) ==
    {fl[i].name : i \in {j \in DOMAIN fl : Len(fl[j].relative_path) = 1}}

_calculate_python_score(fl) ==
    LET py_count == extension_counts(fl, ".py")
    IN  Cardinality(root_files(fl) \cap PYTHON_ROOT_FILES) * 2
        + (IF py_count > 10 THEN 3
           ELSE IF py_count > 5 THEN 2
           ELSE IF py_count > 0 THEN 1
           ELSE 0)

_calculate_non_python_score(fl) ==
    LET roots == root_files(fl)
        ts_js_count == extension_counts(fl, ".ts") + extension_counts(fl, ".js")
                       + extension_counts(fl, ".tsx")
                       + extension_counts(fl, ".jsx")
    IN  (IF roots \cap FRONTEND_FILES # {} THEN 3 ELSE 0)
        + (IF roots \cap JAVA_FILES # {} THEN 3 ELSE 0)
        + (IF roots \cap GO_FILES # {} THEN 3 ELSE 0)
        + (IF roots \cap RUBY_FILES # {} THEN 3 ELSE 0)
        + (IF \E e \in {".csproj", ".sln", ".fsproj", ".vbproj"} :
                 extension_counts(fl, e) > 0
           THEN 3 ELSE 0)
        + (IF ts_js_count > 20 THEN 2
           ELSE IF ts_js_count > 10 THEN 1
           ELSE 0)

\* detect that lets the non-Python score decide whatever the percentage
detect_by_markers(fl) ==
    LET python_score == _calculate_python_score(fl)
        non_python_score == _calculate_non_python_score(fl)
        total == IF Len(fl) > 1 THEN Len(fl) ELSE 1
        py == extension_counts(fl, ".py")
    IN  IF python_score >= 3 /\ 100 * py >= 50 * total THEN "python_dominant"
        ELSE IF non_python_score >= 2 THEN "non_python"
        ELSE IF 100 * py >= 30 * total THEN "mixed"
        ELSE "non_python"

\* detect that calls a repository Python-dominant on the percentage alone
detect_by_percentage(fl) ==
    LET non_python_score == _calculate_non_python_score(fl)
        total == IF Len(fl) > 1 THEN Len(fl) ELSE 1
        py == extension_counts(fl, ".py")
    IN  IF 100 * py >= 50 * total THEN "python_dominant"
        ELSE IF non_python_score >= 2 /\ 100 * py < 20 * total
             THEN "non_python"
        ELSE IF 100 * py >= 30 * total THEN "mixed"
        ELSE "non_python"

\* RepoTypeDetector.detect; py_percentage >= t is compared as
\* 100 * py >= t * max(total, 1), which is exact
detect(fl) ==
    LET python_score == _calculate_python_score(fl)
        non_python_score == _calculate_non_python_score(fl)
        total == IF Len(fl) > 1 THEN Len(fl) ELSE 1
        py == extension_counts(fl, ".py")
    IN  IF python_score >= 3 /\ 100 * py >= 50 * total THEN "python_dominant"
        ELSE IF non_python_score >= 2 /\ 100 * py < 20 * total
             THEN "non_python"
        ELSE IF 100 * py >= 30 * total THEN "mixed"
        ELSE "non_python"

(* --------------------- ecosystem (ecosystem.py) ----------------------- *)

\* the ignored_duplicate_patterns of the profile chosen for a repo type
get_profile_for_repo_type(repo_type) ==
    IF repo_type = "python_dominant" THEN {}
    ELSE {"index.html", "index.tsx", "index.ts", "page.tsx", "layout.tsx",
          "_app.tsx", "_document.tsx"}

should_suppress_duplicate(profile, filename) ==
    \E pattern \in profile : Contains(Lower(filename), pattern)

(* -------------------- classifier (classifier.py) ---------------------- *)

CONFIG_PATTERNS ==
    {"setup.py", "setup.cfg", "pyproject.toml", "requirements.txt",
     "requirements-dev.txt", "Pipfile", "poetry.lock", ".gitignore",
     ".dockerignore", "Dockerfile", "docker-compose.yml", ".env",
     ".env.example", "tox.ini", "pytest.ini", ".flake8", ".pylintrc",
     "mypy.ini"}

CONFIG_EXTENSIONS == {".ini", ".cfg", ".conf", ".yaml", ".yml", ".toml", ".json"}

DATA_EXTENSIONS ==
    {".csv", ".tsv", ".json", ".xml", ".db", ".sqlite", ".sqlite3", ".pkl",
     ".pickle", ".npy", ".npz", ".parquet", ".feather"}

DOC_EXTENSIONS == {".rst", ".txt", ".pdf", ".html", ".htm"}

SCRIPT_KEYWORDS ==
    {"run_", "main_", "cli_", "script_", "setup_", "deploy_", "build_"}

APP_IMPORT_PATTERNS ==
    {"fastapi", "flask", "django", "sqlalchemy", "pydantic", "numpy",
     "pandas", "scikit-learn", "torch", "tensorflow"}

TEST_IMPORT_PATTERNS ==
    {"pytest", "unittest", "mock", "testify", "hypothesis", "nose", "doctest"}

_classify_non_python(metadata) ==
    IF metadata.name \in CONFIG_PATTERNS THEN "configs"
    ELSE IF metadata.extension \in DATA_EXTENSIONS THEN "data"
    ELSE IF metadata.extension \in CONFIG_EXTENSIONS THEN "configs"
    ELSE IF metadata.extension \in DOC_EXTENSIONS THEN "docs"
    ELSE "unknown"

\* [p.lower() for p in metadata.relative_path.parts]
path_parts(metadata) ==
    {Lower(metadata.relative_path[i]) : i \in DOMAIN metadata.relative_path}

_is_test_file(metadata, name_lower) ==
    \/ \E part \in path_parts(metadata) : Contains(part, "test")
    \/ metadata.has_tests
    \/ StartsWith(name_lower, "test_")
    \/ EndsWith(name_lower, "_test.py")
    \/ \E imp \in Range(metadata.imports) : imp \in TEST_IMPORT_PATTERNS

_is_config_file(metadata, name_lower) ==
    \/ metadata.name \in CONFIG_PATTERNS
    \/ EndsWith(name_lower, "_config.py")
    \/ name_lower = "config.py"
    \/ name_lower = "settings.py"
    \/ EndsWith(name_lower, "_settings.py")

_is_script_file(metadata, name_lower, path_lower) ==
    \/ metadata.is_executable
    \/ \E kw \in SCRIPT_KEYWORDS : StartsWith(name_lower, kw)
    \/ "scripts" \in Range(SplitSep(path_lower, "", <<>>))

_is_experiment_file(metadata, name_lower) ==
    \/ \E prefix \in {"temp_", "tmp_", "demo_", "example_", "prototype_"} :
          StartsWith(name_lower, prefix)
    \/ Remove(name_lower, ".py")
          \in {"experiment", "playground", "scratch", "test_run"}
    \/ \E kw \in {"experiment", "playground", "scratch"} :
          Contains(name_lower, kw)
    \/ \E part \in path_parts(metadata) :
          \E kw \in {"experiment", "playground", "scratch", "temp", "tmp"} :
              Contains(part, kw)
    \/ StartsWith(name_lower, "untitled")
    \/ EndsWith(name_lower, ".bak")

\* existing is the set of the paths that exist below the repository root
_is_source_file(metadata, path_lower, existing) ==
    \/ "src" \in Range(SplitSep(path_lower, "", <<>>))
    \/ /\ Len(metadata.relative_path) > 1
       /\ Append(SubSeq(metadata.relative_path, 1,
                        Len(metadata.relative_path) - 1), "__init__.py")
            \in existing
    \/ \E imp \in Range(metadata.imports) :
          \E pattern \in APP_IMPORT_PATTERNS : Contains(imp, pattern)
    \/ Len(metadata.imports) > 2

\* _classify_python with the test rule tried before the experiment rule
_classify_python_test_first(metadata, existing) ==
    LET name_lower == Lower(metadata.name)
        path_lower == Lower(PathStr(metadata.relative_path))
    IN  IF _is_test_file(metadata, name_lower) THEN "tests"
        ELSE IF _is_experiment_file(metadata, name_lower) THEN "experiments"
        ELSE IF _is_config_file(metadata, name_lower) THEN "configs"
        ELSE IF _is_script_file(metadata, name_lower, path_lower)
             THEN "scripts"
        ELSE IF _is_source_file(metadata, path_lower, existing) THEN "src"
        ELSE "trash"

_classify_python(metadata, existing) ==
    LET name_lower == Lower(metadata.name)
        path_lower == Lower(PathStr(metadata.relative_path))
    IN  IF _is_experiment_file(metadata, name_lower) THEN "experiments"
        ELSE IF _is_test_file(metadata, name_lower) THEN "tests"
        ELSE IF _is_config_file(metadata, name_lower) THEN "configs"
        ELSE IF _is_script_file(metadata, name_lower, path_lower)
             THEN "scripts"
        ELSE IF _is_source_file(metadata, path_lower, existing) THEN "src"
        ELSE "trash"

classify(metadata, existing) ==
    IF metadata.extension = ".md" THEN "markdown"
    ELSE IF metadata.extension # ".py" THEN _classify_non_python(metadata)
    ELSE _classify_python(metadata, existing)

(* ------------- proposals (proposal.py) and reasoner.py ---------------- *)

\* ProposalGenerator.add_move: the proposal list with one more Move
add_move(ps, source, target, reason, risk, details) ==
    Append(ps, [action |-> "move", source |-> source, target |-> target,
                reason |-> reason, risk_level |-> risk, details |-> details])

\* ProposalGenerator.add_flag: the proposal list with one more Flag
add_flag(ps, source, reason, risk, details) ==
    Append(ps, [action |-> "flag", source |-> source, target |-> None,
                reason |-> reason, risk_level |-> risk, details |-> details])

\* get_by_action(ActionType.MOVE)
get_by_action(ps, action) == SelectSeq(ps, LAMBDA p : p.action = action)

DUPLICATE_EXEMPT_FILES == {"__init__.py", "__main__.py", "conftest.py"}

_is_correctly_placed(path, category) ==
    LET first_dir == IF Len(path) > 1 THEN path[1] ELSE "<None>"
    IN  /\ Len(path) > 0
        /\ \/ category = "src" /\ first_dir = "src"
           \/ category = "tests" /\ first_dir \in {"tests", "test"}
           \/ category = "configs" /\ first_dir \in {"configs", "config"}
           \/ category = "scripts" /\ first_dir = "scripts"
           \/ category = "docs" /\ first_dir = "docs"
           \/ category = "markdown" /\ first_dir \in {"docs", "markdown"}
           \/ category = "data" /\ first_dir = "data"
           \/ category = "experiments"
                 /\ first_dir \in {"experiments", "playground"}

\* the target path of a file, None when there is none; an unclassified .py
\* file gets its 'needs manual review' Flag here
_generate_target_path(ps, file, category) ==
    LET name == file.name
        current_path == file.relative_path
        parent == SubSeq(current_path, 1, Len(current_path) - 1)
        new_name == IF ~StartsWith(name, "test_")
                    THEN (IF EndsWith(name, "_test.py") THEN name
                          ELSE "test_" \o name)
                    ELSE name
        target ==
            CASE category = "src" -> <<"src">> \o current_path
              [] category = "tests" -> <<"tests">> \o parent \o <<new_name>>
              [] category = "configs" ->
                    IF name \in {"setup.py", "setup.cfg", "pyproject.toml",
                                 "requirements.txt", ".gitignore"}
                    THEN <<name>>
                    ELSE <<"configs", name>>
              [] category = "scripts" -> <<"scripts", name>>
              [] category = "docs" -> <<"docs", name>>
              [] category = "markdown" ->
                    IF Upper(name) = "README.MD" THEN <<"README.md">>
                    ELSE <<"docs", name>>
              [] category = "data" -> <<"data", name>>
              [] category = "experiments" -> <<"experiments", name>>
              [] OTHER -> None
    IN  [target |-> target,
         ps |-> IF category = "trash"
                THEN add_flag(ps, current_path,
                              "Could not classify - needs manual review",
                              "low", [category |-> category])
                ELSE ps]

_assess_risk(file, category) ==
    IF Len(file.imports) > 10 THEN "high"
    ELSE IF file.is_executable THEN "medium"
    ELSE IF category = "configs" THEN "medium"
    ELSE "low"

\* the reason of a Move, kept by the fallback sentence of _generate_reason
_generate_reason(file, category) ==
    "Classified as " \o category \o " based on file analysis."

\* _propose_for_file without the no-op check
_propose_for_file_keep_noop(ps, file, category) ==
    IF _is_correctly_placed(file.relative_path, category) THEN ps
    ELSE LET out == _generate_target_path(ps, file, category)
         IN  IF out.target = None THEN out.ps
             ELSE add_move(out.ps, file.relative_path, out.target,
                           _generate_reason(file, category),
                           _assess_risk(file, category),
                           [category |-> category])

_propose_for_file(ps, file, category) ==
    IF _is_correctly_placed(file.relative_path, category) THEN ps
    ELSE LET out == _generate_target_path(ps, file, category)
         IN  IF out.target = None THEN out.ps
             ELSE IF file.relative_path = out.target THEN out.ps
             ELSE add_move(out.ps, file.relative_path, out.target,
                           _generate_reason(file, category),
                           _assess_risk(file, category),
                           [category |-> category,
                            current_location |->
                                IF Len(file.relative_path) > 1
                                THEN PathStr(SubSeq(file.relative_path, 1,
                                         Len(file.relative_path) - 1))
                                ELSE "root"])

RECURSIVE ProposeAll(_, _, _, _, _)
\* step 4: _propose_for_file over the classified files, from the k-th on
ProposeAll(ps, fl, existing, only_py, k) ==
    IF k > Len(fl) THEN ps
    ELSE ProposeAll(
             IF only_py /\ fl[k].extension # ".py" THEN ps
             ELSE _propose_for_file(ps, fl[k], classify(fl[k], existing)),
             fl, existing, only_py, k + 1)

_assess_duplicate_risk(filename) ==
    LET filename_lower == Lower(filename)
    IN  IF filename_lower \in
              {"requirements.txt", ".env", "dockerfile", "docker-compose.yml",
               "docker-compose.yaml", "package.json", "package-lock.json",
               "yarn.lock", "pipfile", "pipfile.lock", "setup.py",
               "pyproject.toml"}
        THEN "high"
        ELSE IF filename_lower \in
                  {"readme.md", "changelog.md", "license", "license.md",
                   "license.txt", "contributing.md"}
        THEN "low"
        ELSE IF EndsWith(filename_lower, ".log")
                \/ EndsWith(filename_lower, ".tmp")
        THEN "low"
        ELSE "medium"

\* by_name[name]: the files of that lower-cased name, in discovery order
by_name(fl, name) ==
    SelectSeq(fl, LAMBDA f : f.name \notin DUPLICATE_EXEMPT_FILES
                             /\ Lower(f.name) = name)

RECURSIVE DetectFrom_per_file(_, _, _, _)
\* the loop flagging every member of a group, not the group once
DetectFrom_per_file(ps, fl, profile, k) ==
    IF k > Len(fl) THEN ps
    ELSE LET file_list == by_name(fl, Lower(fl[k].name))
             total_count == Len(file_list)
             paths == [i \in DOMAIN file_list |->
                          PathStr(file_list[i].relative_path)]
             emits == /\ total_count > 1
                      /\ ~should_suppress_duplicate(profile, file_list[1].name)
         IN  DetectFrom_per_file(
                 IF emits
                 THEN add_flag(ps, fl[k].relative_path,
                          "Duplicate filename:",
                          _assess_duplicate_risk(file_list[1].name),
                          [total_count |-> total_count,
                           examples |-> paths,
                           all_duplicates |-> paths])
                 ELSE ps,
                 fl, profile, k + 1)

RECURSIVE DetectFrom(_, _, _, _)
\* the loop over by_name.items(): a group is met at its first member
DetectFrom(ps, fl, profile, k) ==
    IF k > Len(fl) THEN ps
    ELSE LET file_list == by_name(fl, Lower(fl[k].name))
             total_count == Len(file_list)
             paths == [i \in DOMAIN file_list |->
                          PathStr(file_list[i].relative_path)]
             emits == /\ total_count > 1
                      /\ file_list[1] = fl[k]
                      /\ ~should_suppress_duplicate(profile, file_list[1].name)
         IN  DetectFrom(
                 IF emits
                 THEN add_flag(ps, file_list[1].relative_path,
                          "Duplicate filename:",
                          _assess_duplicate_risk(file_list[1].name),
                          IF total_count - 3 > 0
                          THEN [total_count |-> total_count,
                                examples |-> SubSeq(paths, 1, 3),
                                all_duplicates |-> paths,
                                remaining |-> total_count - 3]
                          ELSE [total_count |-> total_count,
                                examples |-> paths,
                                all_duplicates |-> paths])
                 ELSE ps,
                 fl, profile, k + 1)

_detect_duplicates(ps, fl, profile) == DetectFrom(ps, fl, profile, 1)

RECURSIVE OrphansFrom(_, _, _)
OrphansFrom(ps, fl, k) ==
    IF k > Len(fl) THEN ps
    ELSE OrphansFrom(
             IF /\ Len(fl[k].relative_path) = 1
                /\ fl[k].extension = ".py"
                /\ fl[k].name \notin {"setup.py", "manage.py"}
             THEN add_flag(ps, fl[k].relative_path,
                           "Python file at repository root", "low",
                           [suggestion |-> "Consider moving to src/ or scripts/"])
             ELSE ps,
             fl, k + 1)

_detect_orphans(ps, fl, repo_type) ==
    IF repo_type # "python_dominant" THEN ps ELSE OrphansFrom(ps, fl, 1)

\* step 6 dropping the Moves of a non-Python repository only
FinalSafetyCheck_non_python_only(ps, repo_type) ==
    IF repo_type = "non_python"
    THEN SelectSeq(ps, LAMBDA p : p.action # "move")
    ELSE ps

\* step 6: every Move is dropped unless the repository is Python-dominant
FinalSafetyCheck(ps, repo_type) ==
    IF repo_type # "python_dominant"
    THEN SelectSeq(ps, LAMBDA p : p.action # "move")
    ELSE ps

\* _suppress_redundant_flags dropping every Flag of a file that has a Move
_suppress_redundant_flags_any_flag(ps) ==
    LET files_with_moves ==
            {PathStr(p.source) : p \in Range(get_by_action(ps, "move"))}
    IN  SelectSeq(ps, LAMBDA p :
            ~(/\ p.action = "flag"
              /\ PathStr(p.source) \in files_with_moves))

_suppress_redundant_flags(ps) ==
    LET files_with_moves ==
            {PathStr(p.source) : p \in Range(get_by_action(ps, "move"))}
    IN  SelectSeq(ps, LAMBDA p :
            ~(/\ p.action = "flag"
              /\ PathStr(p.source) \in files_with_moves
              /\ Contains(p.reason, "Python file at repository root")
              /\ ~StartsWith(p.reason, "Duplicate filename:")))

\* generate_proposals with the per-file proposals made for every repository
\* type
generate_proposals_every_type(ps, fl, existing) ==
    LET repo_type == detect(fl)
        profile == get_profile_for_repo_type(repo_type)
        step4 == ProposeAll(ps, fl, existing, FALSE, 1)
        step5 == _detect_orphans(_detect_duplicates(step4, fl, profile),
                                 fl, repo_type)
        step6 == FinalSafetyCheck(step5, repo_type)
    IN  [repo_type |-> repo_type,
         dropped |-> IF repo_type # "python_dominant"
                     THEN Len(get_by_action(step5, "move")) ELSE 0,
         proposals |-> _suppress_redundant_flags(step6)]

\* StructureReasoner.generate_proposals on a reasoner whose generator holds
\* ps: the detected type, the proposals returned and the number of Moves
\* that step 6 dropped
generate_proposals(ps, fl, existing) ==
    LET repo_type == detect(fl)
        profile == get_profile_for_repo_type(repo_type)
        step4 == IF repo_type = "python_dominant"
                 THEN ProposeAll(ps, fl, existing, FALSE, 1)
                 ELSE IF repo_type = "mixed"
                 THEN ProposeAll(ps, fl, existing, TRUE, 1)
                 ELSE ps
        step5 == _detect_orphans(_detect_duplicates(step4, fl, profile),
                                 fl, repo_type)
        step6 == FinalSafetyCheck(step5, repo_type)
    IN  [repo_type |-> repo_type,
         dropped |-> IF repo_type # "python_dominant"
                     THEN Len(get_by_action(step5, "move")) ELSE 0,
         proposals |-> _suppress_redundant_flags(step6)]

(* -------------------- the reasoner's state machine -------------------- *)

\* the files a repository may hold
Catalogue ==
    {FileMetadata(<<"setup.py">>, <<"setuptools">>, FALSE, FALSE),
     FileMetadata(<<"api.py">>, <<"fastapi">>, FALSE, FALSE),
     FileMetadata(<<"utils.py">>, <<>>, FALSE, FALSE),
     FileMetadata(<<"pkg", "api.py">>, <<"os">>, FALSE, FALSE),
     FileMetadata(<<"pkg", "__init__.py">>, <<>>, FALSE, FALSE),
     FileMetadata(<<"run_job.py">>, <<"sys">>, TRUE, FALSE),
     FileMetadata(<<"tests", "test_api.py">>, <<"pytest">>, FALSE, TRUE),
     FileMetadata(<<"app.ts">>, <<>>, FALSE, FALSE),
     FileMetadata(<<"package.json">>, <<>>, FALSE, FALSE),
     FileMetadata(<<"README.md">>, <<>>, FALSE, FALSE)}

\* the file lists an analysis may return: distinct files in any order
FileLists ==
    {l \in UNION {[1..n -> Catalogue] : n \in 0..MaxFiles} :
        \A j, k \in DOMAIN l : j # k => l[j] # l[k]}

\* the files of a repository in which names repeat
DupCatalogue ==
    {FileMetadata(<<"requirements.txt">>, <<>>, FALSE, FALSE),
     FileMetadata(<<"a", "requirements.txt">>, <<>>, FALSE, FALSE),
     FileMetadata(<<"a", "util.py">>, <<>>, TRUE, FALSE),
     FileMetadata(<<"b", "Util.py">>, <<>>, FALSE, FALSE),
     FileMetadata(<<"c", "util.py">>, <<"flask">>, TRUE, FALSE),
     FileMetadata(<<"d", "UTIL.py">>, <<>>, FALSE, FALSE),
     FileMetadata(<<"a", "index.ts">>, <<>>, FALSE, FALSE),
     FileMetadata(<<"b", "index.ts">>, <<>>, FALSE, FALSE)}

\* the file lists an analysis of such a repository may return
DuplicateLists ==
    {l \in UNION {[1..n -> DupCatalogue] : n \in 1..MaxDupFiles} :
        \A j, k \in DOMAIN l : j # k => l[j] # l[k]}

\* RepositoryAnalyzer.analyze() has returned its files and a new
\* StructureReasoner stands ready; the files are on disk, or (records built
\* by hand, which matters to the files of a package only) they are not
Analyze ==
    /\ reasoner.stage = "idle"
    /\ \E l \in FileLists \cup DuplicateLists :
        /\ files' = l
        /\ disk' \in {Range([i \in DOMAIN l |-> l[i].relative_path])}
                        \cup (IF l \in FileLists THEN {{}} ELSE {})
    /\ reasoner' = [reasoner EXCEPT !.stage = "new"]
    /\ UNCHANGED <<fs, logFile, dry_run, results, last, steps, apply>>
    /\ UNCHANGED <<classifier, scorer, analyzer>>

\* reasoner.generate_proposals(files)
GenerateProposals ==
    /\ reasoner.stage = "new"
    /\ LET out == generate_proposals(reasoner.proposals, files, disk)
       IN  reasoner' = [stage |-> "done", repo_type |-> out.repo_type,
                        dropped |-> out.dropped, proposals |-> out.proposals]
    /\ UNCHANGED <<files, disk>>
    /\ UNCHANGED <<fs, logFile, dry_run, results, last, steps, apply>>
    /\ UNCHANGED <<classifier, scorer, analyzer>>

NextReasoner == Analyze \/ GenerateProposals

\* the executor stays as it was made
InitAnalysis == Init /\ logFile = NoLog /\ dry_run

SpecReasoner == InitAnalysis /\ [][NextReasoner]_vars

(* ------------------------- reasoner properties ------------------------ *)

Ancestors(p) == {SubSeq(p, 1, n) : n \in 1 .. (Len(p) - 1)}

\* the last call was a live execute_proposal of a Move that passes the
\* validation of section 4.7
IsValidLiveMove ==
    /\ IsExecute
    /\ ~last.dry
    /\ last.proposal.action = "move"
    /\ PassesValidation(last.fs0, last.proposal)

\* C11: a live execute_proposal of a Move that passes validation returns
\* success=true and leaves the source path absent, the file at the target
\* path, and every parent directory of the target present.
C11_LiveMoveSucceeds ==
    IsValidLiveMove =>
        /\ last.ret[1].success
        /\ last.proposal.source \notin DOMAIN fs
        /\ last.proposal.target \in DOMAIN fs
        /\ fs[last.proposal.target] = last.fs0[last.proposal.source]
        /\ \A d \in Ancestors(last.proposal.target) : IsDir(fs, d)

\* the smaller of two integers
Min(a, b) == IF a < b THEN a ELSE b

\* C12: rollback_moves(N) attempts only successful, unskipped Move entries
\* of the log, and for every integer N at most N of them: with M such
\* entries it attempts the last min(N, M), most recent first (fewer only
\* when a step fails), and none when N is zero or negative.
C12_AtMostN ==
    IsRollback =>
        LET M == Len(LoggedMoves)
            want == IF Min(last.count, M) < 0 THEN 0 ELSE Min(last.count, M)
        IN  /\ Len(last.ret) <= want
            /\ (\A i \in 1 .. Len(last.ret) : last.ret[i].success)
                  => Len(last.ret) = want
            /\ \A i \in 1 .. Len(last.ret) :
                  /\ last.ret[i].source = LoggedMoves[M - i + 1].target
                  /\ last.ret[i].target = LoggedMoves[M - i + 1].source

(* --------------------- further apply-command properties --------------- *)

\* the log holds an entry with the fields of the result r
IsLogged(r) ==
    \E j \in DOMAIN EntriesOf(logFile) :
        LET e == EntriesOf(logFile)[j]
        IN  /\ e.action = r.action
            /\ e.source = r.source
            /\ e.target = r.target
            /\ e.success = r.success
            /\ e.skipped = r.skipped
            /\ e.message = r.message

\* C13: when a live apply run has returned, the audit log holds every
\* ExecutionResult the run produced, failed ones included, also when the
\* user quit the approval loop.
C13_EveryResultLogged ==
    (apply.pc = "done" /\ ~dry_run) =>
        \A i \in DOMAIN results : IsLogged(results[i])

(* --------------------- further reasoner properties -------------------- *)

Returned == reasoner.stage = "done"

\* the proposals of the result
ReturnedProposals == Range(reasoner.proposals)

\* C14: every proposal generate_proposals returns is well formed: a Move
\* carries a target path that is not its source path, a Flag or Delete
\* carries no target path.
C14_WellFormed ==
    Returned =>
        \A p \in ReturnedProposals :
            /\ p.action \in {"move", "flag", "delete"}
            /\ p.action = "move"
                  => (p.target # None /\ p.target # <<>> /\ p.target # p.source)
            /\ p.action \in {"flag", "delete"} => p.target = None

\* a Python-dominant result with a Move and a Flag, in which setup.py, whose
\* target is the path it has, got no proposal
C14_Witness ==
    /\ Returned
    /\ reasoner.repo_type = "python_dominant"
    /\ \E p \in ReturnedProposals : p.action = "move"
    /\ \E p \in ReturnedProposals : p.action = "flag"
    /\ \E i \in DOMAIN files : files[i].relative_path = <<"setup.py">>
    /\ \A p \in ReturnedProposals : p.source # <<"setup.py">>

\* the lower-cased names of the analysed files
LowerNames == {Lower(files[i].name) : i \in DOMAIN files}

\* the positions in files of the files of one lower-cased name
GroupOf(n) == {i \in DOMAIN files : Lower(files[i].name) = n}

\* the first position of a non-empty set of positions
First(I) == CHOOSE i \in I : \A j \in I : i <= j

\* a group the claim is about: more than one file, none exempt, the name
\* not suppressed by the profile of the detected repository type
IsFlaggedGroup(n) ==
    /\ Cardinality(GroupOf(n)) > 1
    /\ \A i \in GroupOf(n) : files[i].name \notin DUPLICATE_EXEMPT_FILES
    /\ ~should_suppress_duplicate(
            get_profile_for_repo_type(reasoner.repo_type), n)

\* the positions in the result of the duplicate Flags of one group
DuplicateFlagsOf(n) ==
    {k \in DOMAIN reasoner.proposals :
        /\ reasoner.proposals[k].action = "flag"
        /\ StartsWith(reasoner.proposals[k].reason, "Duplicate filename:")
        /\ Lower(reasoner.proposals[k].source[
               Len(reasoner.proposals[k].source)]) = n}

IsMisplaced(f) ==
    \E p \in Range(_propose_for_file(<<>>, f, classify(f, disk))) :
        p.action = "move"

\* the result holds a Move of the file
HasMove(f) ==
    \E p \in ReturnedProposals :
        p.action = "move" /\ p.source = f.relative_path

\* C16: in a mixed repository the result of generate_proposals holds a Move
\* for every misplaced .py file and no Move for a file of another
\* extension.
C16_MixedMovesPythonFiles ==
    (Returned /\ reasoner.repo_type = "mixed") =>
        \A i \in DOMAIN files :
            /\ (files[i].extension = ".py" /\ IsMisplaced(files[i]))
                  => HasMove(files[i])
            /\ files[i].extension # ".py" => ~HasMove(files[i])

\* C17: when the detected repository type is non_python, every proposal of
\* the result is a duplicate-filename Flag: there is no Move, no 'needs
\* manual review' Flag and no 'Python file at repository root' Flag.
C17_NonPythonOnlyDuplicates ==
    (Returned /\ reasoner.repo_type = "non_python") =>
        \A p \in ReturnedProposals :
            /\ p.action = "flag"
            /\ StartsWith(p.reason, "Duplicate filename:")
            /\ ~Contains(p.reason, "needs manual review")
            /\ ~Contains(p.reason, "Python file at repository root")

\* a non-Python repository that holds an unclassified .py file and a
\* repeated name: the duplicate Flag is the whole result
C17_Witness ==
    /\ Returned
    /\ reasoner.repo_type = "non_python"
    /\ \E i \in DOMAIN files :
          files[i].extension = ".py" /\ classify(files[i], disk) = "trash"
    /\ Len(reasoner.proposals) = 1
    /\ StartsWith(reasoner.proposals[1].reason, "Duplicate filename:")

\* the result holds a 'needs manual review' Flag of the file
HasReviewFlag(f) ==
    \E p \in ReturnedProposals :
        /\ p.action = "flag"
        /\ p.source = f.relative_path
        /\ Contains(p.reason, "needs manual review")

\* the classifier's fallback results: of a .py file and of any other file
IsUnclassified(f) == classify(f, disk) \in {"trash", "unknown"}

\* C18: in a Python-dominant repository every file the classifier leaves
\* unclassified, a .py file or any other, has a 'needs manual review' Flag
\* in the result and is the source of no Move.
C18_UnclassifiedIsFlagged ==
    (Returned /\ reasoner.repo_type = "python_dominant") =>
        \A i \in DOMAIN files :
            IsUnclassified(files[i])
                => (HasReviewFlag(files[i]) /\ ~HasMove(files[i]))

(* ------------------ the classifier used on its own -------------------- *)

\* classify calls made between the two calls on the same record
MaxOtherCalls == 2

\* the __init__.py files that come and go on disk between two calls
PackageMarkers == {<<"pkg", "__init__.py">>, <<"lib", "__init__.py">>}

\* self.classifications[str(metadata.path)] = category, which classify
\* reaches for a Python file only
Cached(classifications, metadata, category) ==
    IF metadata.extension = ".py"
    THEN {e \in classifications : e.path # metadata.relative_path}
             \cup {[path |-> metadata.relative_path, category |-> category]}
    ELSE classifications

\* what one classify call saw and returned
ClassifyCall(metadata, existing) ==
    [category |-> classify(metadata, existing), disk |-> existing]

\* the records classified twice: the catalogue and files that match more
\* than one rule
ClassifySubjects ==
    Catalogue \cup
    {FileMetadata(<<"test_run.py">>, <<>>, FALSE, FALSE),
     FileMetadata(<<"src", "test_core.py">>, <<"flask">>, FALSE, FALSE),
     FileMetadata(<<"setup_config.py">>, <<>>, FALSE, FALSE),
     FileMetadata(<<"main_app.py">>, <<"flask">>, FALSE, FALSE),
     FileMetadata(<<"requirements.txt">>, <<>>, FALSE, FALSE)}

\* classifier.classify(metadata), the first call on that record
ClassifyFirst ==
    /\ classifier.stage = "idle"
    /\ \E metadata \in ClassifySubjects :
        LET call == ClassifyCall(metadata, disk)
        IN  classifier' =
                [classifier EXCEPT
                    !.stage = "once",
                    !.subject = metadata,
                    !.first = call,
                    !.classifications = Cached(@, metadata, call.category)]
    /\ UNCHANGED <<fs, logFile, dry_run, results, last, steps, apply>>
    /\ UNCHANGED <<files, disk, reasoner, scorer, analyzer>>

\* classifier.classify(other) on any record, between the two calls
ClassifyOther ==
    /\ classifier.stage = "once"
    /\ classifier.others < MaxOtherCalls
    /\ \E metadata \in Catalogue :
        LET call == ClassifyCall(metadata, disk)
        IN  classifier' =
                [classifier EXCEPT
                    !.others = @ + 1,
                    !.classifications = Cached(@, metadata, call.category)]
    /\ UNCHANGED <<fs, logFile, dry_run, results, last, steps, apply>>
    /\ UNCHANGED <<files, disk, reasoner, scorer, analyzer>>

\* somebody creates or deletes an __init__.py; the records stay as they are
TouchDisk ==
    /\ classifier.stage \in {"idle", "once"}
    /\ \E marker \in PackageMarkers :
        disk' = IF marker \in disk THEN disk \ {marker}
                ELSE disk \cup {marker}
    /\ UNCHANGED <<fs, logFile, dry_run, results, last, steps, apply>>
    /\ UNCHANGED <<files, reasoner, classifier, scorer, analyzer>>

\* classifier.classify(metadata), the second call on the same record
ClassifyAgain ==
    /\ classifier.stage = "once"
    /\ LET call == ClassifyCall(classifier.subject, disk)
       IN  classifier' =
               [classifier EXCEPT
                   !.stage = "twice",
                   !.again = call,
                   !.classifications =
                       Cached(@, classifier.subject, call.category)]
    /\ UNCHANGED <<fs, logFile, dry_run, results, last, steps, apply>>
    /\ UNCHANGED <<files, disk, reasoner, scorer, analyzer>>

NextClassify == ClassifyFirst \/ ClassifyOther \/ TouchDisk \/ ClassifyAgain

SpecClassify == InitAnalysis /\ [][NextClassify]_vars

\* C19: classifying the same record twice yields the same category,
\* whatever happened between the two calls
C19_Idempotent ==
    classifier.stage = "twice"
        => classifier.again.category = classifier.first.category

(* ------------------- confidence (confidence.py) ----------------------- *)

\* high-risk moves of a scored proposal list
MaxHigh == 3

\* medium-risk moves of a scored proposal list
MaxMedium == 11

\* low-risk moves of a scored proposal list
MaxLow == 12

\* import breakage warnings
MaxWarnings == 5

\* _calculate_confidence with the branch for more than 10 medium-risk moves tried first
_calculate_confidence_25(self) ==
    LET s1 == IF self.repo_type = "non_python" THEN 100 - 30 ELSE 100
        s2 == IF Len(self.high_risk_moves) > 0
              THEN s1 - 20 * Min(Len(self.high_risk_moves), 3) ELSE s1
        s3 == IF Len(self.medium_risk_moves) > 10 THEN s2 - 25
              ELSE IF Len(self.medium_risk_moves) > 5 THEN s2 - 15
              ELSE s2
        s4 == IF self.import_warnings_count > 0
              THEN s3 - 10 * Min(self.import_warnings_count, 3) ELSE s3
        s5 == IF ~self.has_tests /\ Len(self.move_proposals) > 0
              THEN s4 - 10 ELSE s4
        s6 == IF self.is_dry_run THEN s5 + 5 ELSE s5
        score == IF Len(self.move_proposals) > 20 THEN s6 - 15 ELSE s6
    IN  IF score >= 70 THEN "HIGH"
        ELSE IF score >= 40 THEN "MEDIUM"
        ELSE "LOW"

\* _calculate_confidence with the warning penalty lost above its cap
_calculate_confidence_no_cap(self) ==
    LET s1 == IF self.repo_type = "non_python" THEN 100 - 30 ELSE 100
        s2 == IF Len(self.high_risk_moves) > 0
              THEN s1 - 20 * Min(Len(self.high_risk_moves), 3) ELSE s1
        s3 == IF Len(self.medium_risk_moves) > 5 THEN s2 - 15
              ELSE IF Len(self.medium_risk_moves) > 10 THEN s2 - 25
              ELSE s2
        s4 == IF self.import_warnings_count > 0
                  /\ self.import_warnings_count <= 3
              THEN s3 - 10 * self.import_warnings_count ELSE s3
        s5 == IF ~self.has_tests /\ Len(self.move_proposals) > 0
              THEN s4 - 10 ELSE s4
        s6 == IF self.is_dry_run THEN s5 + 5 ELSE s5
        score == IF Len(self.move_proposals) > 20 THEN s6 - 15 ELSE s6
    IN  IF score >= 70 THEN "HIGH"
        ELSE IF score >= 40 THEN "MEDIUM"
        ELSE "LOW"

\* ConfidenceScore._calculate_confidence: the score after each penalty and
\* bonus in turn, then the verdict
_calculate_confidence(self) ==
    LET s1 == IF self.repo_type = "non_python" THEN 100 - 30 ELSE 100
        s2 == IF Len(self.high_risk_moves) > 0
              THEN s1 - 20 * Min(Len(self.high_risk_moves), 3) ELSE s1
        s3 == IF Len(self.medium_risk_moves) > 5 THEN s2 - 15
              ELSE IF Len(self.medium_risk_moves) > 10 THEN s2 - 25
              ELSE s2
        s4 == IF self.import_warnings_count > 0
              THEN s3 - 10 * Min(self.import_warnings_count, 3) ELSE s3
        s5 == IF ~self.has_tests /\ Len(self.move_proposals) > 0
              THEN s4 - 10 ELSE s4
        s6 == IF self.is_dry_run THEN s5 + 5 ELSE s5
        score == IF Len(self.move_proposals) > 20 THEN s6 - 15 ELSE s6
    IN  IF score >= 70 THEN "HIGH"
        ELSE IF score >= 40 THEN "MEDIUM"
        ELSE "LOW"

\* ConfidenceScore.__init__; repo_type "none" is the default None
ConfidenceScore(proposals, repo_type, has_tests, import_warnings_count, is_dry_run) ==
    LET move_proposals == SelectSeq(proposals, LAMBDA p : p.action = "move")
        self ==
            [proposals |-> proposals,
             repo_type |-> repo_type,
             has_tests |-> has_tests,
             import_warnings_count |-> import_warnings_count,
             is_dry_run |-> is_dry_run,
             move_proposals |-> move_proposals,
             high_risk_moves |->
                 SelectSeq(move_proposals, LAMBDA p : p.risk_level = "high"),
             medium_risk_moves |->
                 SelectSeq(move_proposals,
                           LAMBDA p : p.risk_level = "medium"),
             low_risk_moves |->
                 SelectSeq(move_proposals, LAMBDA p : p.risk_level = "low")]
    IN  self @@ [confidence_level |-> _calculate_confidence(self)]

\* n Move proposals of one risk level
MovesOfRisk(n, risk) ==
    [i \in 1..n |->
        add_move(<<>>, A, SA, _generate_reason(A, "src"), risk,
                 [category |-> "src"])[1]]

\* the proposal lists that are scored: high, medium and low risk moves and
\* maybe a high-risk Flag with a medium-risk Delete; the medium-risk moves
\* are none, 5, 6 or more than 10
ScoredLists ==
    {MovesOfRisk(h, "high") \o MovesOfRisk(m, "medium")
         \o MovesOfRisk(l, "low")
         \o (IF f
             THEN LET flag == add_flag(<<>>, B, "Duplicate filename: b",
                                       "high", [total_count |-> 2])
                  IN  Append(flag, [flag[1] EXCEPT !.action = "delete",
                                                   !.risk_level = "medium"])
             ELSE <<>>) :
        h \in 0..MaxHigh,
        m \in {0, MaxMedium - 6, MaxMedium - 5, MaxMedium},
        l \in {0, MaxLow}, f \in BOOLEAN}

\* RepoType, and None
RepoTypes == {"python_dominant", "non_python", "mixed", "none"}

\* ConfidenceScore(proposals, repo_type, has_tests, import_warnings_count,
\* is_dry_run)
NewScore ==
    /\ scorer.stage = "idle"
    /\ \E proposals \in ScoredLists, repo_type \in RepoTypes,
          has_tests \in BOOLEAN, import_warnings_count \in 0..MaxWarnings,
          is_dry_run \in BOOLEAN :
        scorer' = [stage |-> "scored",
                   score |-> ConfidenceScore(proposals, repo_type, has_tests,
                                             import_warnings_count,
                                             is_dry_run),
                   previous |-> <<>>]
    /\ UNCHANGED <<fs, logFile, dry_run, results, last, steps, apply>>
    /\ UNCHANGED <<files, disk, reasoner, classifier, analyzer>>

\* the same inputs scored again with more import warnings
RaiseWarnings ==
    /\ scorer.stage = "scored"
    /\ \E more \in (scorer.score.import_warnings_count + 1)..MaxWarnings :
        scorer' = [stage |-> "rescored",
                   score |-> ConfidenceScore(scorer.score.proposals,
                                             scorer.score.repo_type,
                                             scorer.score.has_tests, more,
                                             scorer.score.is_dry_run),
                   previous |-> scorer.score]
    /\ UNCHANGED <<fs, logFile, dry_run, results, last, steps, apply>>
    /\ UNCHANGED <<files, disk, reasoner, classifier, analyzer>>

NextConfidence == NewScore \/ RaiseWarnings

SpecConfidence == InitAnalysis /\ [][NextConfidence]_vars

\* the place of a verdict in the order Low < Medium < High
Rank(level) ==
    CASE level = "LOW" -> 0 [] level = "MEDIUM" -> 1 [] level = "HIGH" -> 2

\* C20: with the proposals, the repo type, the test presence and the dry-run
\* flag held fixed, more import warnings never give a higher verdict
C20_MonotoneInWarnings ==
    scorer.stage = "rescored"
        => Rank(scorer.score.confidence_level)
               <= Rank(scorer.previous.confidence_level)

\* more warnings beyond the cap of the penalty brought the verdict down from
\* the one without warnings
C20_Witness ==
    /\ scorer.stage = "rescored"
    /\ scorer.previous.import_warnings_count = 0
    /\ scorer.score.import_warnings_count > 3
    /\ Rank(scorer.score.confidence_level)
           < Rank(scorer.previous.confidence_level)

\* the entry j of the log h is the successful rollback of its Move entry i
IsUndoOf(h, i, j) ==
    /\ j > i
    /\ h[j].action = "ROLLBACK"
    /\ h[j].success
    /\ h[j].source = h[i].target
    /\ h[j].target = h[i].source

\* the successful Move entries of the log h that no later entry rolled back
NotYetRolledBack(h) ==
    {i \in DOMAIN h :
        /\ IsSuccessfulMove(h[i])
        /\ ~\E j \in DOMAIN h : IsUndoOf(h, i, j)}

\* C21: a live rollback_moves(1) attempts the most recent successful Move
\* of the log that has not been rolled back yet, and nothing when every
\* Move has been rolled back
C21_NotUndoneTwice ==
    (IsRollback /\ ~last.dry /\ last.count = 1) =>
        LET h == EntriesOf(last.log0)
            open == NotYetRolledBack(h)
        IN  IF open = {} THEN last.ret = <<>>
            ELSE LET i == CHOOSE m \in open : \A k \in open : k <= m
                 IN  /\ Len(last.ret) = 1
                     /\ last.ret[1].source = h[i].target
                     /\ last.ret[1].target = h[i].source

\* C22: within one result of generate_proposals no two Move proposals have
\* the same target path and no file is the source of two Moves
C22_DistinctTargets ==
    Returned =>
        \A i, j \in DOMAIN reasoner.proposals :
            LET p == reasoner.proposals[i]
                q == reasoner.proposals[j]
            IN  (i # j /\ p.action = "move" /\ q.action = "move")
                    => (p.target # q.target /\ p.source # q.source)

\* the success flags of a sequence of results
Outcomes(rs) == [i \in DOMAIN rs |-> rs[i].success]

\* the results of execute_proposal on each proposal of ps in turn, from
\* the filesystem f
RECURSIVE ExecuteAll(_, _, _)
ExecuteAll(f, dry, ps) ==
    IF ps = <<>> THEN <<>>
    ELSE LET out == execute_proposal(f, dry, Head(ps))
         IN  <<out.result>> \o ExecuteAll(out.fs, dry, Tail(ps))

\* the proposals an executor has been given, read off its results
ProposalsOf(rs) ==
    [i \in DOMAIN rs |->
        [action |-> rs[i].action, source |-> rs[i].source,
         target |-> rs[i].target]]

\* C23: a sequence of Move proposals executed from the same filesystem, and
\* a rollback_moves(N) on the same log, report the same successes and
\* failures in dry-run mode as in live mode
C23_DryRunPredictsLive ==
    /\ (steps = Len(results) /\ results # <<>>) =>
          /\ results = ExecuteAll(InitFs, dry_run, ProposalsOf(results))
          /\ Outcomes(ExecuteAll(InitFs, TRUE, ProposalsOf(results)))
                = Outcomes(ExecuteAll(InitFs, FALSE, ProposalsOf(results)))
    /\ IsRollback =>
          Outcomes(rollback_moves(last.fs0, last.log0, TRUE,
                                  last.count).results)
            = Outcomes(rollback_moves(last.fs0, last.log0, FALSE,
                                      last.count).results)

\* C24: an executor in dry-run mode adds no entry to the audit log, whatever
\* it is asked to do, so every successful Move entry of the log records a
\* move that was performed on the filesystem
C24_LogRecordsRealMoves ==
    /\ (last.dry /\ last.op # "__init__") => logFile = last.log0
    /\ \A i \in DOMAIN EntriesOf(logFile) :
          IsSuccessfulMove(EntriesOf(logFile)[i])
              => ~HasDryRunMarker(EntriesOf(logFile)[i].message)

\* the Flags _detect_orphans makes for the analysed files
OrphanFlags == Range(_detect_orphans(<<>>, files, reasoner.repo_type))

\* the Flags _detect_duplicates makes for the analysed files
DuplicateFlags ==
    Range(_detect_duplicates(<<>>, files,
                             get_profile_for_repo_type(reasoner.repo_type)))

\* the result holds a Move of the file at this path
IsMoved(path) ==
    \E p \in ReturnedProposals : p.action = "move" /\ p.source = path

\* C25: in the result no file has both a Move and a 'Python file at
\* repository root' Flag; the root Flag of a file is dropped exactly when
\* the file has a Move in the result; a duplicate-filename Flag is always
\* kept, also when its source file has a Move
C25_RedundantFlagSuppression ==
    Returned =>
        /\ \A p \in ReturnedProposals :
              (p.action = "flag"
                  /\ Contains(p.reason, "Python file at repository root"))
                  => ~IsMoved(p.source)
        /\ \A p \in OrphanFlags :
              (p \notin ReturnedProposals) <=> IsMoved(p.source)
        /\ \A p \in DuplicateFlags : p \in ReturnedProposals

\* a result in which a file at the root has a Move, has lost its root Flag
\* and has kept its duplicate Flag
C25_Witness ==
    /\ Returned
    /\ \E p \in OrphanFlags :
          /\ IsMoved(p.source)
          /\ p \notin ReturnedProposals
          /\ \E q \in DuplicateFlags :
                q.source = p.source /\ q \in ReturnedProposals

\* the number of analysed .py files and the number the percentage is taken
\* of
PyCount == Cardinality({i \in DOMAIN files : files[i].extension = ".py"})

TotalCount == IF Len(files) > 1 THEN Len(files) ELSE 1

\* the percentage of .py files is at least t
PyPercentageAtLeast(t) == 100 * PyCount >= t * TotalCount

\* C26: detect answers PythonDominant if the Python score is at least 3 and
\* at least 50 percent of the files are .py files; else NonPython if the
\* non-Python score is at least 2 and the percentage is under 20; else
\* Mixed if the percentage is at least 30; else NonPython. No file at all
\* gives NonPython.
C26_DetectOrder ==
    Returned =>
        /\ reasoner.repo_type =
              (IF _calculate_python_score(files) >= 3
                     /\ PyPercentageAtLeast(50)
               THEN "python_dominant"
               ELSE IF _calculate_non_python_score(files) >= 2
                          /\ ~PyPercentageAtLeast(20)
               THEN "non_python"
               ELSE IF PyPercentageAtLeast(30) THEN "mixed"
               ELSE "non_python")
        /\ files = <<>> => reasoner.repo_type = "non_python"

\* a repository that reaches the last branch: a quarter of its files are
\* .py files and nothing marks it as non-Python
C26_Witness ==
    /\ Returned
    /\ reasoner.repo_type = "non_python"
    /\ _calculate_non_python_score(files) < 2
    /\ PyCount > 0
    /\ PyPercentageAtLeast(20)
    /\ ~PyPercentageAtLeast(30)

\* the rules of a .py file that the record matches, on the disk of the call
MatchesRule(metadata, rule, existing) ==
    LET name_lower == Lower(metadata.name)
        path_lower == Lower(PathStr(metadata.relative_path))
    IN  CASE rule = "experiments" -> _is_experiment_file(metadata, name_lower)
          [] rule = "tests" -> _is_test_file(metadata, name_lower)
          [] rule = "configs" -> _is_config_file(metadata, name_lower)
          [] rule = "scripts" ->
                _is_script_file(metadata, name_lower, path_lower)
          [] rule = "src" -> _is_source_file(metadata, path_lower, existing)

\* the order of the rules of a .py file
PythonRuleOrder == <<"experiments", "tests", "configs", "scripts", "src">>

\* C27: classify applies its rules in a fixed order and the first match
\* wins: Markdown first; for other non-.py files the exact config name,
\* the data extension, the config extension, the doc extension; for .py
\* files Experiment, Test, Config, Script, Source, then the fallback
C27_FirstMatchWins ==
    classifier.stage # "idle" =>
        LET m == classifier.subject
            c == classifier.first.category
            existing == classifier.first.disk
            hits == {k \in DOMAIN PythonRuleOrder :
                        MatchesRule(m, PythonRuleOrder[k], existing)}
        IN  /\ m.extension = ".md" => c = "markdown"
            /\ m.extension \notin {".md", ".py"} =>
                  c = (IF m.name \in CONFIG_PATTERNS THEN "configs"
                       ELSE IF m.extension \in DATA_EXTENSIONS THEN "data"
                       ELSE IF m.extension \in CONFIG_EXTENSIONS
                            THEN "configs"
                       ELSE IF m.extension \in DOC_EXTENSIONS THEN "docs"
                       ELSE "unknown")
            /\ m.extension = ".py" =>
                  c = (IF hits = {} THEN "trash"
                       ELSE PythonRuleOrder[
                                CHOOSE k \in hits : \A j \in hits : k <= j])

\* a .py file that matches the experiment rule and the test rule has been
\* classified as an experiment
C27_Witness ==
    /\ classifier.stage # "idle"
    /\ classifier.subject.extension = ".py"
    /\ MatchesRule(classifier.subject, "experiments", classifier.first.disk)
    /\ MatchesRule(classifier.subject, "tests", classifier.first.disk)
    /\ classifier.first.category = "experiments"

\* the Moves of one risk level among the proposals that were scored
CountMoves(risks) ==
    Cardinality({i \in DOMAIN scorer.score.proposals :
        /\ scorer.score.proposals[i].action = "move"
        /\ scorer.score.proposals[i].risk_level \in risks})

\* the score the specification gives for the inputs that were scored
SpecifiedScore ==
    LET moves == CountMoves({"low", "medium", "high"})
    IN  100
        - (IF scorer.score.repo_type = "non_python" THEN 30 ELSE 0)
        - 20 * Min(CountMoves({"high"}), 3)
        - (IF CountMoves({"medium"}) > 5 THEN 15 ELSE 0)
        - 10 * Min(scorer.score.import_warnings_count, 3)
        - (IF ~scorer.score.has_tests /\ moves >= 1 THEN 10 ELSE 0)
        + (IF scorer.score.is_dry_run THEN 5 ELSE 0)
        - (IF moves > 20 THEN 15 ELSE 0)

MaxImportProposals == 2

\* ImportStatement
ImportStatement(module, is_relative, level, line_number, names) ==
    [module |-> module, is_relative |-> is_relative, level |-> level,
     line_number |-> line_number, names |-> names]

\* the statement extract_imports makes of one node of the syntax tree:
\* 'import module', or 'from module import names' with its dots counted
\* in level and a missing module read as ''
StatementOf(node) ==
    IF node.kind = "Import"
    THEN ImportStatement(node.name, FALSE, 0, node.lineno, <<>>)
    ELSE ImportStatement(IF node.module = "<None>" THEN "" ELSE node.module,
                         node.level > 0, node.level, node.lineno,
                         node.names)

\* extract_imports: nothing for a path that is no file of the repository,
\* for a suffix other than '.py' and for a file that does not parse
extract_imports(repo, file_path) ==
    IF file_path \notin DOMAIN repo THEN <<>>
    ELSE IF suffix(file_path[Len(file_path)]) # ".py" THEN <<>>
    ELSE IF ~repo[file_path].parses THEN <<>>
    ELSE [i \in DOMAIN repo[file_path].tree |->
              StatementOf(repo[file_path].tree[i])]

RECURSIVE ModuleHead(_)
\* module.split('.')[0]
ModuleHead(module) ==
    IF Len(module) = 0 \/ SubSeq(module, 1, 1) = "." THEN ""
    ELSE SubSeq(module, 1, 1) \o ModuleHead(SubSeq(module, 2, Len(module)))

\* ImportWarning, None when there is nothing to warn of
ImportWarning(source_file, import_stmt, reason, affected_files) ==
    [source_file |-> source_file, import_stmt |-> import_stmt,
     reason |-> reason, affected_files |-> affected_files]

NoWarning == ImportWarning(None, <<>>, "", <<>>)

\* move_map: the target of the last Move of each source
move_map(moves) ==
    [s \in {moves[i].source : i \in DOMAIN moves} |->
        moves[CHOOSE i \in DOMAIN moves :
                 /\ moves[i].source = s
                 /\ \A j \in DOMAIN moves : moves[j].source = s => j <= i
             ].target]

\* _check_relative_import that does not compare the two directories
_check_relative_import_any_move(repo, source_file, target_file, import_stmt, moved) ==
    LET source_dir == Parent(source_file)
        target_dir == Parent(target_file)
        potential_file ==
            Append(source_dir, ModuleHead(import_stmt.module) \o ".py")
    IN  IF ~import_stmt.is_relative THEN NoWarning
        ELSE ImportWarning(source_file, import_stmt,
                 "Relative import will break when moving from "
                     \o PathStr(source_dir) \o "/ to "
                     \o PathStr(target_dir) \o "/",
                 IF /\ import_stmt.module # ""
                    /\ (potential_file \in DOMAIN moved
                            \/ potential_file \in DOMAIN repo)
                 THEN << <<ModuleHead(import_stmt.module) \o ".py">> >>
                 ELSE <<>>)

_check_relative_import(repo, source_file, target_file, import_stmt, moved) ==
    LET source_dir == Parent(source_file)
        target_dir == Parent(target_file)
        potential_file ==
            Append(source_dir, ModuleHead(import_stmt.module) \o ".py")
    IN  IF ~import_stmt.is_relative THEN NoWarning
        ELSE IF source_dir # target_dir
        THEN ImportWarning(source_file, import_stmt,
                 "Relative import will break when moving from "
                     \o PathStr(source_dir) \o "/ to "
                     \o PathStr(target_dir) \o "/",
                 IF /\ import_stmt.module # ""
                    /\ (potential_file \in DOMAIN moved
                            \/ potential_file \in DOMAIN repo)
                 THEN << <<ModuleHead(import_stmt.module) \o ".py">> >>
                 ELSE <<>>)
        ELSE NoWarning

_check_same_directory_import(repo, source_file, target_file, import_stmt, moved) ==
    LET source_dir == Parent(source_file)
        target_dir == Parent(target_file)
        module_name == ModuleHead(import_stmt.module)
        potential_local_file == Append(source_dir, module_name \o ".py")
    IN  IF import_stmt.is_relative THEN NoWarning
        ELSE IF source_dir = target_dir THEN NoWarning
        ELSE IF potential_local_file \notin DOMAIN repo THEN NoWarning
        ELSE IF potential_local_file \in DOMAIN moved
        THEN IF Parent(moved[potential_local_file]) # target_dir
             THEN ImportWarning(source_file, import_stmt,
                      "Importing '" \o module_name
                          \o "' from same directory, but "
                          \o potential_local_file[Len(potential_local_file)]
                          \o " is moving to "
                          \o PathStr(Parent(moved[potential_local_file]))
                          \o "/",
                      <<potential_local_file>>)
             ELSE NoWarning
        ELSE ImportWarning(source_file, import_stmt,
                 "Importing '" \o module_name
                     \o "' from current directory, but moving away from "
                     \o PathStr(source_dir) \o "/",
                 <<potential_local_file>>)

_check_import_breakage(repo, source_file, target_file, import_stmt, moved) ==
    IF import_stmt.is_relative
    THEN _check_relative_import(repo, source_file, target_file, import_stmt,
                                moved)
    ELSE _check_same_directory_import(repo, source_file, target_file,
                                      import_stmt, moved)

\* the warnings of one moved file: one pass of the inner loop for each of
\* its imports
WarningsOf(repo, proposal, moved) ==
    LET imports == extract_imports(repo, proposal.source)
        checked == [i \in DOMAIN imports |->
                       _check_import_breakage(repo, proposal.source,
                                              proposal.target, imports[i],
                                              moved)]
    IN  SelectSeq(checked, LAMBDA w : w # NoWarning)

RECURSIVE WarningsFrom(_, _, _, _)
\* the outer loop of analyze_proposals from the Move at position k on
WarningsFrom(repo, moves, moved, k) ==
    IF k > Len(moves) THEN <<>>
    ELSE WarningsOf(repo, moves[k], moved)
             \o WarningsFrom(repo, moves, moved, k + 1)

\* ImportAnalyzer.analyze_proposals
analyze_proposals(repo, proposals) ==
    LET move_proposals == SelectSeq(proposals, LAMBDA p : p.action = "move")
    IN  IF move_proposals = <<>> THEN <<>>
        ELSE WarningsFrom(repo, move_proposals, move_map(move_proposals), 1)

\* one import node of a syntax tree: ast.Import with its name, or
\* ast.ImportFrom with its module, level and names
Node(kind, name, module, level, names, lineno) ==
    [kind |-> kind, name |-> name, module |-> module, level |-> level,
     names |-> names, lineno |-> lineno]

\* what pkg/a.py may hold: from .helpers import f; from . import helpers;
\* import helpers; import os with from .helpers.sub import g; from
\* helpers.sub import g; and the first again in a file that does not parse
SourceTexts ==
    {[parses |-> TRUE,
      tree |-> <<Node("ImportFrom", "", "helpers", 1, <<"f">>, 1)>>],
     [parses |-> TRUE,
      tree |-> <<Node("ImportFrom", "", "<None>", 1, <<"helpers">>, 1)>>],
     [parses |-> TRUE,
      tree |-> <<Node("Import", "helpers", "", 0, <<>>, 1)>>],
     [parses |-> TRUE,
      tree |-> <<Node("Import", "os", "", 0, <<>>, 1),
                 Node("ImportFrom", "", "helpers.sub", 1, <<"g">>, 2)>>],
     [parses |-> TRUE,
      tree |-> <<Node("ImportFrom", "", "helpers.sub", 0, <<"g">>, 1)>>],
     [parses |-> FALSE,
      tree |-> <<Node("ImportFrom", "", "helpers", 1, <<"f">>, 1)>>]}

\* the repositories analysed: pkg/a.py with one of the texts, top.py and
\* pkg/notes.txt with relative imports in them, pkg/helpers.py or not
ImportRepos ==
    {(<<"pkg", "a.py">> :> text
        @@ <<"top.py">> :>
              [parses |-> TRUE,
               tree |-> <<Node("ImportFrom", "", "<None>", 1, <<"a">>, 1)>>]
        @@ <<"pkg", "notes.txt">> :>
              [parses |-> TRUE,
               tree |-> <<Node("ImportFrom", "", "helpers", 1, <<"f">>, 1)>>]
        @@ (IF helpers
            THEN <<"pkg", "helpers.py">> :>
                    [parses |-> TRUE,
                     tree |-> <<Node("ImportFrom", "", "<None>", 1,
                                     <<"a">>, 1)>>]
            ELSE <<>>)) :
        text \in SourceTexts, helpers \in BOOLEAN}

\* the proposals an analysis is asked about
ImportProposals ==
    {[action |-> "move", source |-> <<"pkg", "a.py">>,
      target |-> <<"src", "pkg", "a.py">>],
     [action |-> "move", source |-> <<"pkg", "a.py">>,
      target |-> <<"pkg", "b.py">>],
     [action |-> "move", source |-> <<"pkg", "helpers.py">>,
      target |-> <<"src", "pkg", "helpers.py">>],
     [action |-> "move", source |-> <<"pkg", "helpers.py">>,
      target |-> <<"lib", "helpers.py">>],
     [action |-> "move", source |-> <<"pkg", "notes.txt">>,
      target |-> <<"docs", "notes.txt">>],
     [action |-> "move", source |-> <<"top.py">>,
      target |-> <<"src", "top.py">>],
     [action |-> "flag", source |-> <<"pkg", "a.py">>, target |-> None],
     [action |-> "delete", source |-> <<"pkg", "a.py">>, target |-> None]}

ImportProposalLists ==
    UNION {[1..n -> ImportProposals] : n \in 0..MaxImportProposals}

\* ImportAnalyzer(repo_path)
NewImportAnalyzer ==
    /\ analyzer.stage = "idle"
    /\ \E repo \in ImportRepos :
        analyzer' = [analyzer EXCEPT !.stage = "new", !.repo = repo]
    /\ UNCHANGED <<fs, logFile, dry_run, results, last, steps, apply>>
    /\ UNCHANGED <<files, disk, reasoner, classifier, scorer>>

\* analyzer.analyze_proposals(proposals)
AnalyzeProposals ==
    /\ analyzer.stage = "new"
    /\ \E proposals \in ImportProposalLists :
        analyzer' = [analyzer EXCEPT
                        !.stage = "done",
                        !.proposals = proposals,
                        !.warnings =
                            analyze_proposals(analyzer.repo, proposals)]
    /\ UNCHANGED <<fs, logFile, dry_run, results, last, steps, apply>>
    /\ UNCHANGED <<files, disk, reasoner, classifier, scorer>>

NextImports == NewImportAnalyzer \/ AnalyzeProposals

SpecImports == InitAnalysis /\ [][NextImports]_vars

\* the proposal is a Move of a .py file to another directory
IsDirectoryChange(p) ==
    /\ p.action = "move"
    /\ suffix(p.source[Len(p.source)]) = ".py"
    /\ Parent(p.source) # Parent(p.target)

\* the relative imports that the file at this path holds
RelativeImportsOf(path) ==
    {s \in Range(extract_imports(analyzer.repo, path)) : s.is_relative}

\* C29: analyze_proposals warns of every relative import of a moved .py
\* file whose directory changes; every warning comes from such a Move, so
\* that a Move within one directory, a Move of another kind of file, a
\* Flag and a Delete bring no warning
C29_ImportWarnings ==
    analyzer.stage = "done" =>
        /\ \A p \in Range(analyzer.proposals) :
              IsDirectoryChange(p) =>
                  \A s \in RelativeImportsOf(p.source) :
                      \E w \in Range(analyzer.warnings) :
                          w.source_file = p.source /\ w.import_stmt = s
        /\ \A w \in Range(analyzer.warnings) :
              \E p \in Range(analyzer.proposals) :
                  IsDirectoryChange(p) /\ p.source = w.source_file
        /\ (\A p \in Range(analyzer.proposals) : ~IsDirectoryChange(p))
              => analyzer.warnings = <<>>

\* of two Moves of files with relative imports, the one that leaves its
\* directory brought a warning and the one that stays in it brought none
C29_Witness ==
    /\ analyzer.stage = "done"
    /\ \E p, q \in Range(analyzer.proposals) :
          /\ IsDirectoryChange(p)
          /\ RelativeImportsOf(p.source) # {}
          /\ q.action = "move"
          /\ Parent(q.source) = Parent(q.target)
          /\ RelativeImportsOf(q.source) # {}
          /\ \E w \in Range(analyzer.warnings) : w.source_file = p.source
          /\ ~\E w \in Range(analyzer.warnings) : w.source_file = q.source

\* C30: the detected type is a function of the Python score and of the
\* percentage of .py files alone: the frontend, Java, Go, Ruby and .NET
\* markers and the JS/TS counts, that is the non-Python score, never
\* change it
C30_NonPythonScoreIrrelevant ==
    Returned =>
        reasoner.repo_type =
            (IF _calculate_python_score(files) >= 3 /\ PyPercentageAtLeast(50)
             THEN "python_dominant"
             ELSE IF PyPercentageAtLeast(30) THEN "mixed"
             ELSE "non_python")

\* a repository with a frontend marker at its root and enough .py files is
\* mixed, as it would be without the marker
C30_Witness ==
    /\ Returned
    /\ _calculate_non_python_score(files) >= 2
    /\ PyPercentageAtLeast(30)
    /\ reasoner.repo_type = "mixed"

====
